---- MODULE Spec2Model ----
(***************************************************************************)
(* Shipment tracking core of src/app.py: the event journal with one-shot   *)
(* milestones, status bucketing, the fee / escrow state machine, route     *)
(* generation and the chat verification protocol.                          *)
(*                                                                         *)
(* Text is modelled by TLA+ strings; Python's str.strip, str.upper,        *)
(* str.lower and the `in` substring test are computed character by         *)
(* character.  Wall-clock values (now_str, now_ts) are not modelled: an    *)
(* event is {location, description} and a chat message {sender, text}.     *)
(* Coordinates are integers in units of 1e-6 degree.  Strings are ASCII:   *)
(* the source's arrow and dash appear as "->" and "-", accented letters    *)
(* unaccented, and the check mark that opens a system message is left out. *)
(***************************************************************************)
EXTENDS Integers, Sequences, FiniteSets, TLC

\* shipments and chats are the two persisted collections; inflight holds the
\* requests that have loaded a collection and not yet saved it back; clock is
\* the second datetime.utcnow() is in.  session holds the chat_last_read
\* entry of the session cookies that SpecUnread follows, one browser per
\* identity; the cookie lives in the browser, and the requests of the other
\* specifications come from browsers that are not followed.
VARIABLES shipments, chats, inflight, clock, session

vars == <<shipments, chats, inflight, clock, session>>

(***************************************************************************)
(* Bounds of the model: per shipment, the status changes journalled (fewer *)
(* once the shipment has a chat thread); per thread, the user posts, the   *)
(* administrator posts and the payment initiations.                        *)
(***************************************************************************)
MaxStatusEvents == 3
MaxChatStatusEvents == 2
MaxUserMsgs == 2
MaxAdminMsgs == 1
MaxInitiations == 2

(***************************************************************************)
(* Python string primitives.                                               *)
(***************************************************************************)
LowerAlpha == "abcdefghijklmnopqrstuvwxyz"
UpperAlpha == "ABCDEFGHIJKLMNOPQRSTUVWXYZ"

CharAt(s, i) == SubSeq(s, i, i)

IndexIn(c, alpha) ==
    IF \E i \in 1..Len(alpha) : CharAt(alpha, i) = c
    THEN CHOOSE i \in 1..Len(alpha) : CharAt(alpha, i) = c
    ELSE 0

LowerLetters == {CharAt(LowerAlpha, i) : i \in 1..26}
UpperLetters == {CharAt(UpperAlpha, i) : i \in 1..26}

ToUpper == [c \in LowerLetters |-> CharAt(UpperAlpha, IndexIn(c, LowerAlpha))]
ToLower == [c \in UpperLetters |-> CharAt(LowerAlpha, IndexIn(c, UpperAlpha))]

UpperChar(c) == IF c \in LowerLetters THEN ToUpper[c] ELSE c

LowerChar(c) == IF c \in UpperLetters THEN ToLower[c] ELSE c

RECURSIVE Upper(_)
Upper(s) ==
    IF Len(s) = 0 THEN ""
    ELSE UpperChar(CharAt(s, 1)) \o Upper(SubSeq(s, 2, Len(s)))

RECURSIVE Lower(_)
Lower(s) ==
    IF Len(s) = 0 THEN ""
    ELSE LowerChar(CharAt(s, 1)) \o Lower(SubSeq(s, 2, Len(s)))

RECURSIVE LStrip(_)
LStrip(s) ==
    IF Len(s) > 0 /\ CharAt(s, 1) = " " THEN LStrip(SubSeq(s, 2, Len(s))) ELSE s

RECURSIVE RStrip(_)
RStrip(s) ==
    IF Len(s) > 0 /\ CharAt(s, Len(s)) = " "
    THEN RStrip(SubSeq(s, 1, Len(s) - 1)) ELSE s

Strip(s) == RStrip(LStrip(s))

\* Python's `sub in s`.
Contains(sub, s) ==
    \E i \in 1..(Len(s) - Len(sub) + 1) : SubSeq(s, i, i + Len(sub) - 1) = sub

\* Python's `x in list`.
InList(x, list) == \E i \in 1..Len(list) : list[i] = x

(***************************************************************************)
(* Event journal and status bucketing.                                     *)
(***************************************************************************)
Event(location, description) ==
    [location |-> location, description |-> description]

\* add_auto_event_once that forgets to record the key.
add_auto_event_once_forgets_key(shipment, key, location, description) ==
    IF key = "" \/ InList(key, shipment.auto_event_keys)
    THEN [shipment |-> shipment, ret |-> FALSE]
    ELSE [shipment |->
            [shipment EXCEPT !.events = Append(@, Event(location, description))],
          ret |-> TRUE]

\* add_auto_event_once that records the key of an event it has already.
add_auto_event_once_rekeys(shipment, key, location, description) ==
    IF key = "" THEN [shipment |-> shipment, ret |-> FALSE]
    ELSE IF InList(key, shipment.auto_event_keys)
    THEN [shipment |-> [shipment EXCEPT !.auto_event_keys = Append(@, key)],
          ret |-> FALSE]
    ELSE [shipment |->
            [shipment EXCEPT
                !.events = Append(@, Event(location, description)),
                !.auto_event_keys = Append(@, key)],
          ret |-> TRUE]

add_auto_event_once(shipment, key, location, description) ==
    IF key = "" THEN [shipment |-> shipment, ret |-> FALSE]
    ELSE IF InList(key, shipment.auto_event_keys)
    THEN [shipment |-> shipment, ret |-> FALSE]
    ELSE [shipment |->
            [shipment EXCEPT
                !.events = Append(@, Event(location, description)),
                !.auto_event_keys = Append(@, key)],
          ret |-> TRUE]

\* normalize_status_bucket that tests "hold" before "transit".
normalize_status_bucket_hold_first(status) ==
    LET s == Lower(Strip(status)) IN
    IF Contains("delivered", s) THEN "delivered"
    ELSE IF Contains("out for delivery", s) THEN "out_for_delivery"
    ELSE IF Contains("hold", s) \/ Contains("pending verification", s) THEN "on_hold"
    ELSE IF Contains("transit", s) THEN "in_transit"
    ELSE IF Contains("picked up", s) THEN "picked_up"
    ELSE IF Contains("created", s) THEN "created"
    ELSE "other"

normalize_status_bucket(status) ==
    LET s == Lower(Strip(status)) IN
    IF Contains("delivered", s) THEN "delivered"
    ELSE IF Contains("out for delivery", s) THEN "out_for_delivery"
    ELSE IF Contains("transit", s) THEN "in_transit"
    ELSE IF Contains("picked up", s) THEN "picked_up"
    ELSE IF Contains("hold", s) \/ Contains("pending verification", s) THEN "on_hold"
    ELSE IF Contains("created", s) THEN "created"
    ELSE "other"

\* ensure_auto_history whose milestone keys are scoped by the status text,
\* not by its bucket.
ensure_auto_history_rekeyed(shipment) ==
    LET bucket == normalize_status_bucket(shipment.status)
        r0 == add_auto_event_once(shipment, "milestone_created", "System",
                                  "Shipment record created")
        s0 == r0.shipment
        key == "milestone_" \o Lower(Strip(shipment.status))
        r1 == IF bucket = "picked_up"
              THEN add_auto_event_once(s0, key, "Carrier Scan", "Shipment picked up")
              ELSE IF bucket = "in_transit"
              THEN add_auto_event_once(s0, key, "Transit Hub", "Shipment is in transit")
              ELSE IF bucket = "out_for_delivery"
              THEN add_auto_event_once(s0, key, "Destination Facility",
                                       "Out for delivery")
              ELSE IF bucket = "delivered"
              THEN add_auto_event_once(s0, key, "Delivered",
                                       "Shipment delivered successfully")
              ELSE IF bucket = "on_hold"
              THEN add_auto_event_once(s0, key, "Customs / Compliance",
                                       "Shipment placed on hold")
              ELSE [shipment |-> s0, ret |-> FALSE]
    IN  [shipment |-> r1.shipment, ret |-> r0.ret \/ r1.ret]

ensure_auto_history(shipment) ==
    LET bucket == normalize_status_bucket(shipment.status)
        r0 == add_auto_event_once(shipment, "milestone_created", "System",
                                  "Shipment record created")
        s0 == r0.shipment
        r1 == IF bucket = "picked_up"
              THEN add_auto_event_once(s0, "milestone_picked_up", "Carrier Scan",
                                       "Shipment picked up")
              ELSE IF bucket = "in_transit"
              THEN add_auto_event_once(s0, "milestone_in_transit", "Transit Hub",
                                       "Shipment is in transit")
              ELSE IF bucket = "out_for_delivery"
              THEN add_auto_event_once(s0, "milestone_out_for_delivery",
                                       "Destination Facility", "Out for delivery")
              ELSE IF bucket = "delivered"
              THEN add_auto_event_once(s0, "milestone_delivered", "Delivered",
                                       "Shipment delivered successfully")
              ELSE IF bucket = "on_hold"
              THEN add_auto_event_once(s0, "milestone_on_hold",
                                       "Customs / Compliance", "Shipment placed on hold")
              ELSE [shipment |-> s0, ret |-> FALSE]
    IN  [shipment |-> r1.shipment, ret |-> r0.ret \/ r1.ret]

(***************************************************************************)
(* Python values.                                                          *)
(***************************************************************************)
\* None, where the other values of the field are strings.
NoneVal == "<None>"

\* `v or ""`.
OrEmpty(v) == IF v = NoneVal THEN "" ELSE v

\* shipment["fees"] = None (or the key absent).
NoFees == [none |-> TRUE]

\* current_location = None (or the key absent).
NoLocation == [none |-> TRUE]

\* dict operations on a collection keyed by tracking id.
Has(d, k) == k \in DOMAIN d

Put(d, k, v) == (k :> v) @@ d

RECURSIVE Restrict(_, _)
Restrict(d, keys) ==
    IF keys = {} THEN <<>>
    ELSE LET k == CHOOSE x \in keys : TRUE
         IN  (k :> d[k]) @@ Restrict(d, keys \ {k})

Pop(d, k) == Restrict(d, (DOMAIN d) \ {k})

\* shipments.get(tracking_id, {}) read through .get with the defaults the
\* handlers use.
EmptyShipment ==
    [status |-> "", owner_email |-> "", origin |-> "", destination |-> "",
     package_details |-> "", estimated_delivery |-> NoneVal,
     estimated_delivery_tbd_on_hold |-> FALSE, route |-> <<>>,
     current_location |-> NoLocation, events |-> <<>>,
     auto_event_keys |-> <<>>, fees |-> NoFees]

(***************************************************************************)
(* Fees helpers.                                                           *)
(***************************************************************************)
Digits == "0123456789"

IsDigits(s) == Len(s) > 0 /\ \A i \in 1..Len(s) : IndexIn(CharAt(s, i), Digits) # 0

RECURSIVE DigitsValue(_)
DigitsValue(s) ==
    IF Len(s) = 0 THEN 0
    ELSE 10 * DigitsValue(SubSeq(s, 1, Len(s) - 1))
         + (IndexIn(CharAt(s, Len(s)), Digits) - 1)

\* float(str(v).strip()) for the unsigned whole-number literals; any other
\* text of the input sets is one float() rejects.  -1 stands for None.
NoAmount == -1

to_float(v) ==
    LET s == Strip(v) IN
    IF s = "" THEN NoAmount
    ELSE IF IsDigits(s) THEN DigitsValue(s)
    ELSE NoAmount

NewFees ==
    [amount |-> NoAmount, reason |-> "", paid |-> FALSE,
     payment_submitted |-> FALSE, payment_method |-> "", payer_email |-> "",
     init_code |-> "", init_code_received |-> FALSE, initiated_at |-> FALSE]

IsFees(f) == f # NoFees

\* apply_fees_logic that starts every assessment from a fresh Fee.
apply_fees_logic_resets(shipment, status, fees_amount_raw, fees_reason_raw, clear_fees) ==
    IF clear_fees THEN [shipment EXCEPT !.fees = NoFees]
    ELSE
      LET fees_amount == to_float(fees_amount_raw)
          fees_reason == IF Strip(fees_reason_raw) = "" THEN "Customs and Taxes"
                         ELSE Strip(fees_reason_raw)
      IN  IF status = "On Hold" /\ fees_amount # NoAmount
          THEN [shipment EXCEPT !.fees =
                    [NewFees EXCEPT !.amount = fees_amount, !.reason = fees_reason]]
          ELSE shipment

\* apply_fees_logic that clears only when it has no amount to assess.
apply_fees_logic_amount_first(shipment, status, fees_amount_raw, fees_reason_raw, clear_fees) ==
    LET fees_amount == to_float(fees_amount_raw)
        fees_reason == IF Strip(fees_reason_raw) = "" THEN "Customs and Taxes"
                       ELSE Strip(fees_reason_raw)
    IN  IF status = "On Hold" /\ fees_amount # NoAmount
        THEN LET fees == IF IsFees(shipment.fees) THEN shipment.fees ELSE NewFees
             IN  [shipment EXCEPT !.fees =
                      [fees EXCEPT !.amount = fees_amount,
                                   !.reason = fees_reason,
                                   !.paid = FALSE]]
        ELSE IF clear_fees THEN [shipment EXCEPT !.fees = NoFees]
        ELSE shipment

apply_fees_logic(shipment, status, fees_amount_raw, fees_reason_raw, clear_fees) ==
    IF clear_fees THEN [shipment EXCEPT !.fees = NoFees]
    ELSE
      LET fees_amount == to_float(fees_amount_raw)
          fees_reason == IF Strip(fees_reason_raw) = "" THEN "Customs and Taxes"
                         ELSE Strip(fees_reason_raw)
      IN  IF status = "On Hold" /\ fees_amount # NoAmount
          THEN LET fees == IF IsFees(shipment.fees) THEN shipment.fees ELSE NewFees
               IN  [shipment EXCEPT !.fees =
                        [fees EXCEPT !.amount = fees_amount,
                                     !.reason = fees_reason,
                                     !.paid = FALSE]]
          ELSE shipment

\* add_status_event_if_changed that files the entry at the head of the journal.
add_status_event_first(shipment, old_status, new_status) ==
    IF old_status # new_status
    THEN [shipment EXCEPT !.events =
            <<Event("Admin Update",
                "Status updated: " \o (IF old_status = "" THEN "N/A" ELSE old_status)
                    \o " -> " \o new_status)>> \o @]
    ELSE shipment

\* add_status_event_if_changed that journals every save.
add_status_event_always(shipment, old_status, new_status) ==
    [shipment EXCEPT !.events =
        Append(@, Event("Admin Update",
            "Status updated: " \o (IF old_status = "" THEN "N/A" ELSE old_status)
                \o " -> " \o new_status))]

add_status_event_if_changed(shipment, old_status, new_status) ==
    IF old_status # new_status
    THEN [shipment EXCEPT !.events =
            Append(@, Event("Admin Update",
                "Status updated: " \o (IF old_status = "" THEN "N/A" ELSE old_status)
                    \o " -> " \o new_status))]
    ELSE shipment

\* add_estimated_delivery_event_if_changed that journals every change,
\* recording no key.
add_estimated_delivery_event_unkeyed(shipment, old_est_raw, new_est_raw) ==
    LET old_est == Strip(old_est_raw)
        new_est == Strip(new_est_raw)
    IN  IF old_est = new_est THEN [shipment |-> shipment, ret |-> FALSE]
        ELSE [shipment |->
                [shipment EXCEPT !.events =
                    Append(@, Event("Admin Update",
                        IF new_est # "" THEN "Estimated delivery set: " \o new_est
                        ELSE "Estimated delivery cleared"))],
              ret |-> TRUE]

add_estimated_delivery_event_if_changed(shipment, old_est_raw, new_est_raw) ==
    LET old_est == Strip(old_est_raw)
        new_est == Strip(new_est_raw)
        key == "estimated_delivery:" \o (IF new_est = "" THEN "cleared" ELSE new_est)
    IN  IF old_est = new_est THEN [shipment |-> shipment, ret |-> FALSE]
        ELSE IF new_est # ""
        THEN add_auto_event_once(shipment, key, "Admin Update",
                                 "Estimated delivery set: " \o new_est)
        ELSE add_auto_event_once(shipment, key, "Admin Update",
                                 "Estimated delivery cleared")

(***************************************************************************)
(* Route generation.                                                       *)
(***************************************************************************)
CITY_DB == <<
    [key |-> "new york", lat |-> 40712800, lng |-> -74006000, label |-> "New York, USA"],
    [key |-> "los angeles", lat |-> 34052200, lng |-> -118243700, label |-> "Los Angeles, USA"],
    [key |-> "miami", lat |-> 25761700, lng |-> -80191800, label |-> "Miami, USA"],
    [key |-> "houston", lat |-> 29760400, lng |-> -95369800, label |-> "Houston, USA"],
    [key |-> "chicago", lat |-> 41878100, lng |-> -87629800, label |-> "Chicago, USA"],
    [key |-> "toronto", lat |-> 43653200, lng |-> -79383200, label |-> "Toronto, Canada"],
    [key |-> "vancouver", lat |-> 49282700, lng |-> -123120700, label |-> "Vancouver, Canada"],
    [key |-> "mexico city", lat |-> 19432600, lng |-> -99133200, label |-> "Mexico City, Mexico"],
    [key |-> "sao paulo", lat |-> -23550500, lng |-> -46633300, label |-> "Sao Paulo, Brazil"],
    [key |-> "rio de janeiro", lat |-> -22906800, lng |-> -43172900, label |-> "Rio de Janeiro, Brazil"],
    [key |-> "buenos aires", lat |-> -34603700, lng |-> -58381600, label |-> "Buenos Aires, Argentina"],
    [key |-> "bogota", lat |-> 4711000, lng |-> -74072100, label |-> "Bogota, Colombia"],
    [key |-> "lima", lat |-> -12046400, lng |-> -77042800, label |-> "Lima, Peru"],
    [key |-> "santiago", lat |-> -33448900, lng |-> -70669300, label |-> "Santiago, Chile"],
    [key |-> "london", lat |-> 51507400, lng |-> -127800, label |-> "London, UK"],
    [key |-> "paris", lat |-> 48856600, lng |-> 2352200, label |-> "Paris, France"],
    [key |-> "madrid", lat |-> 40416800, lng |-> -3703800, label |-> "Madrid, Spain"],
    [key |-> "rome", lat |-> 41902800, lng |-> 12496400, label |-> "Rome, Italy"],
    [key |-> "berlin", lat |-> 52520000, lng |-> 13405000, label |-> "Berlin, Germany"],
    [key |-> "amsterdam", lat |-> 52367600, lng |-> 4904100, label |-> "Amsterdam, Netherlands"],
    [key |-> "dubai", lat |-> 25204800, lng |-> 55270800, label |-> "Dubai, UAE"],
    [key |-> "tokyo", lat |-> 35676200, lng |-> 139650300, label |-> "Tokyo, Japan"],
    [key |-> "seoul", lat |-> 37566500, lng |-> 126978000, label |-> "Seoul, South Korea"],
    [key |-> "singapore", lat |-> 1352100, lng |-> 103819800, label |-> "Singapore"],
    [key |-> "hong kong", lat |-> 22319300, lng |-> 114169400, label |-> "Hong Kong"],
    [key |-> "delhi", lat |-> 28613900, lng |-> 77209000, label |-> "Delhi, India"]
>>

NoCity == [key |-> "", lat |-> 0, lng |-> 0, label |-> ""]

\* The first entry of CITY_DB, in its order, whose key occurs in the text.
find_city_coords(text) ==
    IF text = "" THEN NoCity
    ELSE LET t == Lower(Strip(text))
             hits == {i \in 1..Len(CITY_DB) : Contains(CITY_DB[i].key, t)}
         IN  IF hits = {} THEN NoCity
             ELSE CITY_DB[CHOOSE i \in hits : \A j \in hits : i <= j]

\* a + (b - a) * t for t = t100 / 100.  The coordinates are multiples of
\* 1e-4 degree (100 units), so the product is a whole number of 1e-6 degree
\* and round(., 6) leaves it as it is.
lerp(a, b, t100) == a + ((b - a) \div 100) * t100

FallbackLat == 40712800
FallbackLng == -74006000
DestOffset == 10000000

route_origin(origin_text, found) ==
    IF found = NoCity
    THEN [lat |-> FallbackLat, lng |-> FallbackLng,
          label |-> IF origin_text = "" THEN "New York, USA" ELSE origin_text]
    ELSE [lat |-> found.lat, lng |-> found.lng, label |-> found.label]

\* route_destination whose fallback is the origin itself.
route_destination_at_origin(dest_text, found, o) ==
    IF found = NoCity
    THEN [lat |-> o.lat, lng |-> o.lng,
          label |-> IF dest_text = "" THEN "Destination" ELSE dest_text]
    ELSE [lat |-> found.lat, lng |-> found.lng, label |-> found.label]

route_destination(dest_text, found, o) ==
    IF found = NoCity
    THEN [lat |-> o.lat + DestOffset, lng |-> o.lng + DestOffset,
          label |-> IF dest_text = "" THEN "Destination" ELSE dest_text]
    ELSE [lat |-> found.lat, lng |-> found.lng, label |-> found.label]

RouteSteps == <<0, 22, 55, 82, 100>>

route_point(o, d, i, label) ==
    [lat |-> lerp(o.lat, d.lat, RouteSteps[i]),
     lng |-> lerp(o.lng, d.lng, RouteSteps[i]),
     label |-> label]

route_points(o, d) ==
    << route_point(o, d, 1, "Origin Scan - " \o o.label),
       route_point(o, d, 2, "Departed origin facility"),
       route_point(o, d, 3, "In transit - regional hub"),
       route_point(o, d, 4, "Arrived in destination country"),
       route_point(o, d, 5, "Destination Facility - " \o d.label) >>

route_from(dest_text, o) ==
    route_points(o, route_destination(dest_text, find_city_coords(dest_text), o))

generate_route(origin_text, dest_text) ==
    route_from(dest_text, route_origin(origin_text, find_city_coords(origin_text)))

\* should_regenerate_route without the test that both endpoints are given.
should_regenerate_route_any_endpoint(existing, updated) ==
    LET old_o == Strip(existing.origin)
        old_d == Strip(existing.destination)
        new_o == Strip(updated.origin)
        new_d == Strip(updated.destination)
        route_empty == Len(updated.route) = 0
        changed_od == (old_o # new_o) \/ (old_d # new_d)
    IN  route_empty \/ changed_od

should_regenerate_route(existing, updated) ==
    LET old_o == Strip(existing.origin)
        old_d == Strip(existing.destination)
        new_o == Strip(updated.origin)
        new_d == Strip(updated.destination)
        route_empty == Len(updated.route) = 0
        changed_od == (old_o # new_o) \/ (old_d # new_d)
    IN  (new_o # "" /\ new_d # "") /\ (route_empty \/ changed_od)

(***************************************************************************)
(* Chat helpers.  A collection is a function from the tracking ids it      *)
(* holds to their documents.                                               *)
(***************************************************************************)
chat_safe_tracking(tracking_id) == Strip(tracking_id)

CodeLen == 8

\* The tokens _make_code(8) may draw here, all over its alphabet.
Codes == {"ABC12345"}

\* chat_ensure_thread that follows the shipment's current owner.
chat_ensure_thread_follows_owner(cs, tracking_id_raw, owner_email) ==
    LET tracking_id == chat_safe_tracking(tracking_id_raw) IN
    IF ~Has(cs, tracking_id)
    THEN Put(cs, tracking_id,
             [tracking_id |-> tracking_id, owner_email |-> owner_email,
              messages |-> <<>>])
    ELSE IF owner_email # "" /\ cs[tracking_id].owner_email # owner_email
    THEN Put(cs, tracking_id, [cs[tracking_id] EXCEPT !.owner_email = owner_email])
    ELSE cs

chat_ensure_thread(cs, tracking_id_raw, owner_email) ==
    LET tracking_id == chat_safe_tracking(tracking_id_raw) IN
    IF ~Has(cs, tracking_id)
    THEN Put(cs, tracking_id,
             [tracking_id |-> tracking_id, owner_email |-> owner_email,
              messages |-> <<>>])
    ELSE IF owner_email # "" /\ cs[tracking_id].owner_email = ""
    THEN Put(cs, tracking_id, [cs[tracking_id] EXCEPT !.owner_email = owner_email])
    ELSE cs

\* int(datetime.utcnow().timestamp())
now_ts == clock

chat_add_message(cs, tracking_id_raw, sender, text_raw) ==
    LET tracking_id == chat_safe_tracking(tracking_id_raw)
        text == Strip(text_raw)
        th == IF Has(cs, tracking_id) THEN cs[tracking_id]
              ELSE [tracking_id |-> tracking_id, owner_email |-> "", messages |-> <<>>]
    IN  IF text = "" THEN cs
        ELSE Put(cs, tracking_id,
                 [th EXCEPT !.messages = Append(@, [ts |-> now_ts, sender |-> sender, text |-> text])])

\* session["chat_last_read"] after chat_mark_read(tracking_id).
chat_mark_read(last_read, tracking_id_raw) ==
    Put(last_read, chat_safe_tracking(tracking_id_raw), now_ts)

(***************************************************************************)
(* Callers.  current_user() is the session's user record, or None.         *)
(***************************************************************************)
Anonymous == [email |-> "", role |-> "none"]
AdminUser == [email |-> "admin@glopacshippingexpress.com", role |-> "admin"]
Alice == [email |-> "alice@example.com", role |-> "user"]
Bob == [email |-> "bob@example.com", role |-> "user"]

is_logged_in(u) == u # Anonymous

is_admin(u) == u # Anonymous /\ u.role = "admin"

\* owner_email and (viewer_email == owner_email)
is_owner_of(shipment, u) ==
    LET owner_email == Lower(Strip(shipment.owner_email))
        viewer_email == Lower(Strip(u.email))
    IN  owner_email # "" /\ viewer_email = owner_email

Result(ss, cs, op, to) ==
    [shipments |-> ss, chats |-> cs, resp |-> [op |-> op, to |-> to]]

(***************************************************************************)
(* Request handlers: the collections after the request and the response.   *)
(***************************************************************************)
InitiationMessage(code) ==
    "Payment initiated. Your verification code is: " \o code
        \o ". A representative will be in touch with you shortly."
        \o " Please send this code in this chat to continue."

CodeReceivedMessage == "Code received. A representative will send payment details shortly."

CodeReceivedEvent ==
    Event("Payment Chat", "Verification code received - awaiting payment details")

PaymentVerifiedEvent ==
    Event("Admin Verification", "Payment Verified - Shipment Released")

\* initiate_payment without the `paid` test.
initiate_payment_ignores_paid(ss, cs, u, tracking_id, form, code) ==
    IF ~is_logged_in(u) \/ ~Has(ss, tracking_id)
    THEN Result(ss, cs, "initiate_payment", "track")
    ELSE IF ~(is_admin(u) \/ is_owner_of(ss[tracking_id], u))
            \/ ~IsFees(ss[tracking_id].fees)
    THEN Result(ss, cs, "initiate_payment", "track")
    ELSE IF Strip(form.payment_method) = "" \/ Strip(form.payer_email) = ""
    THEN Result(ss, cs, "initiate_payment", "payment_page")
    ELSE Result(
            Put(ss, tracking_id,
                [ss[tracking_id] EXCEPT
                    !.fees.payment_method = Strip(form.payment_method),
                    !.fees.payer_email = Lower(Strip(form.payer_email)),
                    !.fees.init_code = code,
                    !.fees.init_code_received = FALSE,
                    !.fees.payment_submitted = FALSE,
                    !.fees.initiated_at = TRUE]),
            chat_add_message(
                chat_ensure_thread(cs, tracking_id, ss[tracking_id].owner_email),
                tracking_id, "system", InitiationMessage(code)),
            "initiate_payment", "payment_chat")

\* initiate_payment open to every logged-in user.
initiate_payment_any_user(ss, cs, u, tracking_id, form, code) ==
    IF ~is_logged_in(u) THEN Result(ss, cs, "initiate_payment", "login")
    ELSE IF ~Has(ss, tracking_id) THEN Result(ss, cs, "initiate_payment", "track")
    ELSE
      LET shipment == ss[tracking_id]
          owner_email == Lower(Strip(shipment.owner_email))
          fees == shipment.fees
          payment_method == Strip(form.payment_method)
          payer_email == Lower(Strip(form.payer_email))
      IN  IF ~is_logged_in(u)
          THEN Result(ss, cs, "initiate_payment", "track")
          ELSE IF ~IsFees(fees) \/ fees.paid
          THEN Result(ss, cs, "initiate_payment", "track")
          ELSE IF payment_method = "" \/ payer_email = ""
          THEN Result(ss, cs, "initiate_payment", "payment_page")
          ELSE
            LET fees2 == [fees EXCEPT !.payment_method = payment_method,
                                      !.payer_email = payer_email,
                                      !.init_code = code,
                                      !.init_code_received = FALSE,
                                      !.payment_submitted = FALSE,
                                      !.initiated_at = TRUE]
                ss2 == Put(ss, tracking_id, [shipment EXCEPT !.fees = fees2])
                cs2 == chat_ensure_thread(cs, tracking_id, owner_email)
                cs3 == chat_add_message(cs2, tracking_id, "system", InitiationMessage(code))
            IN  Result(ss2, cs3, "initiate_payment", "payment_chat")

initiate_payment(ss, cs, u, tracking_id, form, code) ==
    IF ~is_logged_in(u) THEN Result(ss, cs, "initiate_payment", "login")
    ELSE IF ~Has(ss, tracking_id) THEN Result(ss, cs, "initiate_payment", "track")
    ELSE
      LET shipment == ss[tracking_id]
          owner_email == Lower(Strip(shipment.owner_email))
          fees == shipment.fees
          payment_method == Strip(form.payment_method)
          payer_email == Lower(Strip(form.payer_email))
      IN  IF ~(is_admin(u) \/ is_owner_of(shipment, u))
          THEN Result(ss, cs, "initiate_payment", "track")
          ELSE IF ~IsFees(fees) \/ fees.paid
          THEN Result(ss, cs, "initiate_payment", "track")
          ELSE IF payment_method = "" \/ payer_email = ""
          THEN Result(ss, cs, "initiate_payment", "payment_page")
          ELSE
            LET fees2 == [fees EXCEPT !.payment_method = payment_method,
                                      !.payer_email = payer_email,
                                      !.init_code = code,
                                      !.init_code_received = FALSE,
                                      !.payment_submitted = FALSE,
                                      !.initiated_at = TRUE]
                ss2 == Put(ss, tracking_id, [shipment EXCEPT !.fees = fees2])
                cs2 == chat_ensure_thread(cs, tracking_id, owner_email)
                cs3 == chat_add_message(cs2, tracking_id, "system", InitiationMessage(code))
            IN  Result(ss2, cs3, "initiate_payment", "payment_chat")

\* code_received without the forced status.
code_received_keeps_status(ss, cs, tracking_id, shipment, fees) ==
    [shipments |->
        Put(ss, tracking_id,
            ensure_auto_history(
                [shipment EXCEPT
                    !.fees = [fees EXCEPT !.init_code_received = TRUE,
                                          !.payment_submitted = TRUE],
                    !.events = Append(@, CodeReceivedEvent)]).shipment),
     chats |-> chat_add_message(cs, tracking_id, "system", CodeReceivedMessage),
     resp |-> [op |-> "payment_chat", to |-> "payment_chat"]]

\* The branch of payment_chat taken once a posted text matched the code.
code_received(ss, cs, tracking_id, shipment, fees) ==
    LET fees2 == [fees EXCEPT !.init_code_received = TRUE, !.payment_submitted = TRUE]
        s2 == [shipment EXCEPT !.fees = fees2, !.status = "On Hold",
                               !.events = Append(@, CodeReceivedEvent)]
        s3 == ensure_auto_history(s2).shipment
    IN  Result(Put(ss, tracking_id, s3),
               chat_add_message(cs, tracking_id, "system", CodeReceivedMessage),
               "payment_chat", "payment_chat")

\* payment_chat without the init_code_received guard.
payment_chat_unguarded(ss, cs, u, tracking_id, method, message) ==
    IF ~is_logged_in(u) \/ ~Has(ss, tracking_id) THEN Result(ss, cs, "payment_chat", "track")
    ELSE IF ~(is_admin(u) \/ is_owner_of(ss[tracking_id], u))
    THEN Result(ss, cs, "payment_chat", "track")
    ELSE IF method # "POST" \/ Strip(message) = ""
    THEN Result(ss, chat_ensure_thread(cs, tracking_id, ss[tracking_id].owner_email),
                "payment_chat", "payment_chat")
    ELSE IF IsFees(ss[tracking_id].fees) /\ ss[tracking_id].fees.init_code # ""
            /\ Contains(Upper(ss[tracking_id].fees.init_code), Upper(message))
    THEN [shipments |->
            Put(ss, tracking_id,
                ensure_auto_history(
                    [ss[tracking_id] EXCEPT
                        !.fees.init_code_received = TRUE,
                        !.fees.payment_submitted = TRUE,
                        !.status = "On Hold",
                        !.events = Append(@, CodeReceivedEvent)]).shipment),
          chats |->
            chat_add_message(
                chat_add_message(
                    chat_ensure_thread(cs, tracking_id, ss[tracking_id].owner_email),
                    tracking_id, "user", message),
                tracking_id, "system", CodeReceivedMessage),
          resp |-> [op |-> "payment_chat", to |-> "payment_chat"]]
    ELSE Result(ss,
                chat_add_message(
                    chat_ensure_thread(cs, tracking_id, ss[tracking_id].owner_email),
                    tracking_id, "user", message),
                "payment_chat", "payment_chat")

payment_chat(ss, cs, u, tracking_id, method, message) ==
    IF ~is_logged_in(u) THEN Result(ss, cs, "payment_chat", "login")
    ELSE IF ~Has(ss, tracking_id) THEN Result(ss, cs, "payment_chat", "track")
    ELSE
      LET shipment == ss[tracking_id]
          owner_email == Lower(Strip(shipment.owner_email))
          fees == IF IsFees(shipment.fees) THEN shipment.fees ELSE NewFees
          cs1 == chat_ensure_thread(cs, tracking_id, owner_email)
          text == Strip(message)
          cs2 == chat_add_message(cs1, tracking_id, "user", text)
          init_code == Upper(Strip(fees.init_code))
      IN  IF ~(is_admin(u) \/ is_owner_of(shipment, u))
          THEN Result(ss, cs, "payment_chat", "track")
          ELSE IF method # "POST" THEN Result(ss, cs1, "payment_chat", "render")
          ELSE IF text = "" THEN Result(ss, cs1, "payment_chat", "payment_chat")
          ELSE IF init_code # "" /\ ~fees.init_code_received
                  /\ Contains(init_code, Upper(text))
          THEN code_received(ss, cs2, tracking_id, shipment, fees)
          ELSE Result(ss, cs2, "payment_chat", "payment_chat")

\* An unread test that also counts a message of the watermark's second.
unread_message_at_or_after(m, lr) ==
    m.sender \in {"admin", "system"} /\ m.ts >= lr

\* m.get("sender") in ("admin", "system") and int(m.get("ts", 0)) > lr
unread_message(m, lr) ==
    m.sender \in {"admin", "system"} /\ m.ts > lr

RECURSIVE unread_messages(_, _)
\* The inner loop: what one thread's messages add to unread.
unread_messages(msgs, lr) ==
    IF msgs = <<>> THEN 0
    ELSE (IF unread_message(Head(msgs), lr) THEN 1 ELSE 0)
         + unread_messages(Tail(msgs), lr)

RECURSIVE unread_threads(_, _, _, _)
\* The outer loop over chats.items(): the threads of another owner are
\* skipped, and lr is int(last_read.get(tid, 0) or 0).
unread_threads(cs, last_read, user_email, tids) ==
    IF tids = {} THEN 0
    ELSE LET tid == CHOOSE t \in tids : TRUE
             owner == Lower(Strip(cs[tid].owner_email))
             lr == IF Has(last_read, tid) THEN last_read[tid] ELSE 0
         IN  (IF owner # user_email THEN 0
              ELSE unread_messages(cs[tid].messages, lr))
             + unread_threads(cs, last_read, user_email, tids \ {tid})

\* The count chat_unread_count_for_user returns (the tracking id it returns
\* beside it is not modelled).
chat_unread_count_for_user(cs, last_read, user_email_raw) ==
    IF Lower(Strip(user_email_raw)) = "" THEN 0
    ELSE unread_threads(cs, last_read, Lower(Strip(user_email_raw)), DOMAIN cs)

\* session["chat_last_read"] after payment_chat: the thread is marked read
\* once the caller is past the login and ownership gates.
payment_chat_session(ss, u, tracking_id, last_read) ==
    IF ~is_logged_in(u) \/ ~Has(ss, tracking_id) THEN last_read
    ELSE IF ~(is_admin(u) \/ is_owner_of(ss[tracking_id], u)) THEN last_read
    ELSE chat_mark_read(last_read, tracking_id)

admin_chat(ss, cs, u, tracking_id, method, message) ==
    IF ~is_admin(u) THEN Result(ss, cs, "admin_chat", "login")
    ELSE
      LET shipment == IF Has(ss, tracking_id) THEN ss[tracking_id] ELSE EmptyShipment
          owner_email == Lower(Strip(shipment.owner_email))
          cs1 == chat_ensure_thread(cs, tracking_id, owner_email)
          text == Strip(message)
      IN  IF method # "POST" THEN Result(ss, cs1, "admin_chat", "render")
          ELSE Result(ss, chat_add_message(cs1, tracking_id, "admin", text),
                      "admin_chat", "admin_chat")

\* The release itself, whatever the fee's state.
release(ss, cs, tracking_id) ==
    Result(Put(ss, tracking_id,
               ensure_auto_history(
                   add_status_event_if_changed(
                       [ss[tracking_id] EXCEPT
                           !.fees.paid = TRUE, !.fees.payment_submitted = FALSE,
                           !.status = "In Transit",
                           !.events = Append(@, PaymentVerifiedEvent)],
                       ss[tracking_id].status, "In Transit")).shipment),
           cs, "verify_payment", "admin_panel")

\* verify_payment without the `not paid` test.
verify_payment_ignores_paid(ss, cs, u, tracking_id) ==
    IF is_admin(u) /\ Has(ss, tracking_id) /\ IsFees(ss[tracking_id].fees)
       /\ ss[tracking_id].fees.payment_submitted
    THEN release(ss, cs, tracking_id)
    ELSE Result(ss, cs, "verify_payment", "admin_panel")

\* verify_payment without the payment_submitted test.
verify_payment_unsubmitted(ss, cs, u, tracking_id) ==
    IF is_admin(u) /\ Has(ss, tracking_id) /\ IsFees(ss[tracking_id].fees)
       /\ ~ss[tracking_id].fees.paid
    THEN release(ss, cs, tracking_id)
    ELSE Result(ss, cs, "verify_payment", "admin_panel")

verify_payment(ss, cs, u, tracking_id) ==
    IF ~is_admin(u) THEN Result(ss, cs, "verify_payment", "login")
    ELSE IF ~Has(ss, tracking_id) THEN Result(ss, cs, "verify_payment", "admin_panel")
    ELSE
      LET shipment == ss[tracking_id]
          fees == shipment.fees
      IN  IF IsFees(fees) /\ fees.payment_submitted /\ ~fees.paid
          THEN LET fees2 == [fees EXCEPT !.paid = TRUE, !.payment_submitted = FALSE]
                   old_status == shipment.status
                   s2 == [shipment EXCEPT !.fees = fees2, !.status = "In Transit",
                                          !.events = Append(@, PaymentVerifiedEvent)]
                   s3 == add_status_event_if_changed(s2, old_status, s2.status)
                   s4 == ensure_auto_history(s3).shipment
               IN  Result(Put(ss, tracking_id, s4), cs, "verify_payment", "admin_panel")
          ELSE Result(ss, cs, "verify_payment", "admin_panel")

delete_shipment(ss, cs, u, tracking_id) ==
    IF ~is_admin(u) THEN Result(ss, cs, "delete_shipment", "login")
    ELSE IF Has(ss, tracking_id)
    THEN Result(Pop(ss, tracking_id), cs, "delete_shipment", "admin_panel")
    ELSE Result(ss, cs, "delete_shipment", "admin_panel")

(***************************************************************************)
(* json.loads over the override texts the administrator forms carry here:  *)
(* kind is "list", "dict" or "invalid" (the text does not parse).          *)
(***************************************************************************)
RouteOverride == <<[lat |-> 1000000, lng |-> 2000000, label |-> "Depot"]>>
LocationOverride == [lat |-> 1000000, lng |-> 2000000]

JSON_DOCS == <<
    [raw |-> "[{\"lat\": 1, \"lng\": 2, \"label\": \"Depot\"}]", kind |-> "list"],
    [raw |-> "[]", kind |-> "list"],
    [raw |-> "{\"lat\": 1, \"lng\": 2}", kind |-> "dict"] >>

json_kind(raw) ==
    IF \E i \in 1..Len(JSON_DOCS) : JSON_DOCS[i].raw = raw
    THEN JSON_DOCS[CHOOSE i \in 1..Len(JSON_DOCS) : JSON_DOCS[i].raw = raw].kind
    ELSE "invalid"

json_route(raw) == IF raw = "[]" THEN <<>> ELSE RouteOverride

(***************************************************************************)
(* Administrator mutation surfaces and the tracking read.                  *)
(***************************************************************************)
\* Handlers are written as stages applied one to the result of the other,
\* in the order of the handler's statements.

\* set_estimate that sets the TBD flag and keeps the stored date.
set_estimate_keeps_date(shipment, estimated_delivery, estimated_delivery_tbd) ==
    IF estimated_delivery_tbd
    THEN [shipment EXCEPT !.estimated_delivery_tbd_on_hold = TRUE]
    ELSE IF estimated_delivery # ""
    THEN [shipment EXCEPT !.estimated_delivery_tbd_on_hold = FALSE,
                          !.estimated_delivery = estimated_delivery]
    ELSE [shipment EXCEPT !.estimated_delivery_tbd_on_hold = FALSE]

\* The estimated-delivery fields after an update (both admin surfaces).
set_estimate(shipment, estimated_delivery, estimated_delivery_tbd) ==
    IF estimated_delivery_tbd
    THEN [shipment EXCEPT !.estimated_delivery_tbd_on_hold = TRUE,
                          !.estimated_delivery = NoneVal]
    ELSE IF estimated_delivery # ""
    THEN [shipment EXCEPT !.estimated_delivery_tbd_on_hold = FALSE,
                          !.estimated_delivery = estimated_delivery]
    ELSE [shipment EXCEPT !.estimated_delivery_tbd_on_hold = FALSE]

\* `if value: shipment[field] = value` for the text fields of a form.
panel_fields(existing, form) ==
    [existing EXCEPT
        !.status = Strip(form.status),
        !.owner_email = IF Strip(form.owner_email) # ""
                        THEN Lower(Strip(form.owner_email)) ELSE @,
        !.origin = IF Strip(form.origin) # "" THEN Strip(form.origin) ELSE @,
        !.destination = IF Strip(form.destination) # ""
                        THEN Strip(form.destination) ELSE @,
        !.package_details = IF Strip(form.package_details) # ""
                            THEN Strip(form.package_details) ELSE @]

panel_route(existing, updated, route_raw) ==
    IF route_raw # "" THEN [updated EXCEPT !.route = json_route(route_raw)]
    ELSE IF should_regenerate_route(existing, updated)
    THEN [updated EXCEPT !.route = generate_route(updated.origin, updated.destination)]
    ELSE updated

panel_location(updated, current_location_raw) ==
    IF current_location_raw # ""
    THEN [updated EXCEPT !.current_location = LocationOverride]
    ELSE updated

\* panel_fees_paid that honours the flag only after the code was received.
panel_fees_paid_needs_code(updated, fees_paid) ==
    IF fees_paid /\ IsFees(updated.fees) /\ updated.fees.payment_submitted
    THEN [updated EXCEPT !.fees.paid = TRUE, !.fees.payment_submitted = FALSE]
    ELSE updated

panel_fees_paid(updated, fees_paid) ==
    IF fees_paid /\ IsFees(updated.fees)
    THEN [updated EXCEPT !.fees.paid = TRUE, !.fees.payment_submitted = FALSE]
    ELSE updated

\* The journal calls that end both admin handlers.
journal_update(shipment, old_status, old_est) ==
    ensure_auto_history(
        add_estimated_delivery_event_if_changed(
            add_status_event_if_changed(shipment, old_status, shipment.status),
            OrEmpty(old_est), OrEmpty(shipment.estimated_delivery)).shipment).shipment

panel_updated(existing, form) ==
    journal_update(
        panel_fees_paid(
            apply_fees_logic(
                panel_location(
                    panel_route(existing,
                        set_estimate(panel_fields(existing, form),
                                     Strip(form.estimated_delivery),
                                     form.estimated_delivery_tbd_on_hold = "on"),
                        Strip(form.route)),
                    Strip(form.current_location)),
                Strip(form.status), form.fees_amount, form.fees_reason, FALSE),
            form.fees_paid = "on"),
        existing.status, existing.estimated_delivery)

\* admin_panel that saves whatever the current-location override holds.
admin_panel_keeps_bad_location(ss, cs, u, method, form) ==
    IF ~is_admin(u) THEN Result(ss, cs, "admin_panel", "login")
    ELSE IF method # "POST" THEN Result(ss, cs, "admin_panel", "render")
    ELSE IF Lower(Strip(form.form_type)) # "shipment"
    THEN Result(ss, cs, "admin_panel", "admin_panel")
    ELSE IF Strip(form.tracking_id) = "" \/ Strip(form.status) = ""
    THEN Result(ss, cs, "admin_panel", "400")
    ELSE IF Strip(form.route) # "" /\ json_kind(Strip(form.route)) # "list"
    THEN Result(ss, cs, "admin_panel", "400")
    ELSE Result(Put(ss, Strip(form.tracking_id),
                    panel_updated(IF Has(ss, Strip(form.tracking_id))
                                  THEN ss[Strip(form.tracking_id)]
                                  ELSE EmptyShipment, form)),
                cs, "admin_panel", "admin_panel")

admin_panel(ss, cs, u, method, form) ==
    IF ~is_admin(u) THEN Result(ss, cs, "admin_panel", "login")
    ELSE IF method # "POST" THEN Result(ss, cs, "admin_panel", "render")
    ELSE IF Lower(Strip(form.form_type)) # "shipment"
    THEN Result(ss, cs, "admin_panel", "admin_panel")
    ELSE IF Strip(form.tracking_id) = "" \/ Strip(form.status) = ""
    THEN Result(ss, cs, "admin_panel", "400")
    ELSE IF Strip(form.route) # "" /\ json_kind(Strip(form.route)) # "list"
    THEN Result(ss, cs, "admin_panel", "400")
    ELSE IF Strip(form.current_location) # ""
            /\ json_kind(Strip(form.current_location)) # "dict"
    THEN Result(ss, cs, "admin_panel", "400")
    ELSE Result(Put(ss, Strip(form.tracking_id),
                    panel_updated(IF Has(ss, Strip(form.tracking_id))
                                  THEN ss[Strip(form.tracking_id)]
                                  ELSE EmptyShipment, form)),
                cs, "admin_panel", "admin_panel")

update_status(form) ==
    IF Strip(form.status) = "Custom Status" /\ Strip(form.custom_status) # ""
    THEN Strip(form.custom_status) ELSE Strip(form.status)

update_fields(shipment, form) ==
    [shipment EXCEPT
        !.origin = IF Strip(form.origin) # "" THEN Strip(form.origin) ELSE @,
        !.destination = IF Strip(form.destination) # ""
                        THEN Strip(form.destination) ELSE @,
        !.status = IF update_status(form) # "" THEN update_status(form) ELSE @]

update_fees(shipment, form) ==
    apply_fees_logic(shipment, shipment.status, form.fees_amount, form.fees_reason,
                     form.clear_fees = "1")

\* existing_snapshot = shipments.get(tracking_id) is the object the handler
\* has just updated in place, so both arguments are the updated shipment.
update_route(shipment) ==
    IF should_regenerate_route(shipment, shipment)
    THEN [shipment EXCEPT !.route = generate_route(shipment.origin, shipment.destination)]
    ELSE shipment

update_updated(shipment, form) ==
    journal_update(
        update_route(
            update_fees(
                set_estimate(update_fields(shipment, form),
                             Strip(form.estimated_delivery),
                             form.estimated_delivery_tbd_on_hold = "on"),
                form)),
        shipment.status, shipment.estimated_delivery)

admin_update_shipment(ss, cs, u, tracking_id, form) ==
    IF ~is_admin(u) THEN Result(ss, cs, "admin_update_shipment", "login")
    ELSE IF ~Has(ss, tracking_id)
    THEN Result(ss, cs, "admin_update_shipment", "admin_panel")
    ELSE Result(Put(ss, tracking_id, update_updated(ss[tracking_id], form)),
                cs, "admin_update_shipment", "admin_panel")

\* track that saves the status it shows to a viewer who is not signed in.
track_stores_view(ss, cs, u, tracking_id_raw) ==
    LET tracking_id == Strip(tracking_id_raw) IN
    IF tracking_id = "" \/ ~Has(ss, tracking_id) THEN Result(ss, cs, "track", "index")
    ELSE IF is_logged_in(u)
    THEN Result(Put(ss, tracking_id, ensure_auto_history(ss[tracking_id]).shipment),
                cs, "track", "render")
    ELSE Result(Put(ss, tracking_id,
                    [ensure_auto_history(ss[tracking_id]).shipment EXCEPT !.status =
                        "Package held for customs fees - log in to continue and take further action"]),
                cs, "track", "render")

track(ss, cs, u, tracking_id_raw) ==
    LET tracking_id == Strip(tracking_id_raw) IN
    IF tracking_id = "" THEN Result(ss, cs, "track", "index")
    ELSE IF ~Has(ss, tracking_id) THEN Result(ss, cs, "track", "index")
    ELSE
      LET shipment == ss[tracking_id]
          r == ensure_auto_history(shipment)
          route == r.shipment.route
          locate == r.shipment.current_location = NoLocation /\ Len(route) > 0
          s2 == IF locate
                THEN [r.shipment EXCEPT !.current_location =
                        [lat |-> route[Len(route)].lat, lng |-> route[Len(route)].lng]]
                ELSE r.shipment
          changed == r.ret \/ locate
      IN  Result(IF changed THEN Put(ss, tracking_id, s2) ELSE ss, cs, "track", "render")

\* track_view that redacts for anonymous viewers only.
track_view_logged_in(shipment, u) ==
    LET can_view_sensitive == is_logged_in(u)
        fees == shipment.fees
        held == IsFees(fees) /\ ~fees.paid
    IN  [status |->
            IF held /\ ~can_view_sensitive
            THEN "Package held for customs fees - log in to continue and take further action"
            ELSE IF held /\ fees.payment_submitted
            THEN "Payment Submitted - Pending Verification"
            ELSE IF held THEN "On Hold for Customs/Taxes Payment"
            ELSE shipment.status,
         fees |->
            IF held /\ ~can_view_sensitive THEN [exists |-> TRUE, paid |-> FALSE]
            ELSE IF can_view_sensitive THEN fees
            ELSE NoFees,
         estimated_delivery |->
            IF shipment.estimated_delivery_tbd_on_hold
            THEN "Date will be made available when hold clears"
            ELSE shipment.estimated_delivery]

\* What track renders of the shipment's status, fees and estimate.
track_view(shipment, u) ==
    LET can_view_sensitive == is_admin(u) \/ (is_logged_in(u) /\ is_owner_of(shipment, u))
        fees == shipment.fees
        held == IsFees(fees) /\ ~fees.paid
    IN  [status |->
            IF held /\ ~can_view_sensitive
            THEN "Package held for customs fees - log in to continue and take further action"
            ELSE IF held /\ fees.payment_submitted
            THEN "Payment Submitted - Pending Verification"
            ELSE IF held THEN "On Hold for Customs/Taxes Payment"
            ELSE shipment.status,
         fees |->
            IF held /\ ~can_view_sensitive THEN [exists |-> TRUE, paid |-> FALSE]
            ELSE IF can_view_sensitive THEN fees
            ELSE NoFees,
         estimated_delivery |->
            IF shipment.estimated_delivery_tbd_on_hold
            THEN "Date will be made available when hold clears"
            ELSE shipment.estimated_delivery]

(***************************************************************************)
(* The state machine: one action per request handler.  An action applies   *)
(* the handler to the stored collections for a caller and a request drawn  *)
(* from the given sets.                                                    *)
(***************************************************************************)
TrackingIds == {"GLX1"}

AllCallers == {Anonymous, AdminUser, Alice, Bob}

Callers == {AdminUser, Alice, Bob}

AdminCallers == {AdminUser, Alice}

Methods == {"GET", "POST"}

BlankPanelForm ==
    [form_type |-> "shipment", tracking_id |-> "GLX1", status |-> "",
     owner_email |-> "", origin |-> "", destination |-> "",
     package_details |-> "", estimated_delivery |-> "",
     estimated_delivery_tbd_on_hold |-> "", fees_amount |-> "",
     fees_reason |-> "", fees_paid |-> "", route |-> "", current_location |-> ""]

BlankUpdateForm ==
    [status |-> "", custom_status |-> "", fees_amount |-> "", fees_reason |-> "",
     clear_fees |-> "", estimated_delivery |-> "",
     estimated_delivery_tbd_on_hold |-> "", origin |-> "", destination |-> ""]

StartsWith(s, prefix) ==
    Len(s) >= Len(prefix) /\ SubSeq(s, 1, Len(prefix)) = prefix

\* Journal entries whose description starts with the prefix.
RECURSIVE CountEvents(_, _)
CountEvents(events, prefix) ==
    IF Len(events) = 0 THEN 0
    ELSE (IF StartsWith(Head(events).description, prefix) THEN 1 ELSE 0)
         + CountEvents(Tail(events), prefix)

\* Messages of a sender whose text starts with the prefix.
RECURSIVE CountMessages(_, _, _)
CountMessages(messages, sender, prefix) ==
    IF Len(messages) = 0 THEN 0
    ELSE (IF Head(messages).sender = sender
             /\ StartsWith(Head(messages).text, prefix) THEN 1 ELSE 0)
         + CountMessages(Tail(messages), sender, prefix)

\* The runs explored: at most MaxStatusEvents status changes journalled per
\* shipment (MaxChatStatusEvents once it has a thread), MaxUserMsgs user
\* posts, MaxAdminMsgs administrator posts and MaxInitiations payment
\* initiations per thread.
Bounded(r) ==
    /\ \A t \in DOMAIN r.shipments :
          CountEvents(r.shipments[t].events, "Status updated")
            <= (IF Has(r.chats, t) THEN MaxChatStatusEvents ELSE MaxStatusEvents)
    /\ \A t \in DOMAIN r.chats :
          /\ CountMessages(r.chats[t].messages, "user", "") <= MaxUserMsgs
          /\ CountMessages(r.chats[t].messages, "admin", "") <= MaxAdminMsgs
          /\ CountMessages(r.chats[t].messages, "system", "Payment initiated")
                <= MaxInitiations

Apply(r) ==
    /\ Bounded(r)
    /\ shipments' = r.shipments
    /\ chats' = r.chats
    /\ UNCHANGED <<inflight, clock, session>>

AdminPanel(forms) ==
    \E u \in AdminCallers, form \in forms :
        Apply(admin_panel(shipments, chats, u, "POST", form))

AdminUpdateShipment(forms) ==
    \E u \in AdminCallers, t \in TrackingIds, form \in forms :
        Apply(admin_update_shipment(shipments, chats, u, t, form))

Track ==
    \E u \in AllCallers, t \in TrackingIds :
        Apply(track(shipments, chats, u, t))

InitiatePayment(forms) ==
    \E u \in Callers, t \in TrackingIds, form \in forms, code \in Codes :
        Apply(initiate_payment(shipments, chats, u, t, form, code))

\* A post from a browser whose cookie is not followed: see OpenPaymentChat
\* for one that is.
PaymentChat(texts) ==
    \E u \in Callers, t \in TrackingIds, text \in texts :
        Apply(payment_chat(shipments, chats, u, t, "POST", text))

AdminChat(texts) ==
    \E u \in AdminCallers, t \in TrackingIds, m \in Methods, text \in texts :
        Apply(admin_chat(shipments, chats, u, t, m, text))

VerifyPayment ==
    \E u \in AdminCallers, t \in TrackingIds :
        Apply(verify_payment(shipments, chats, u, t))

DeleteShipment ==
    \E u \in AdminCallers, t \in TrackingIds :
        Apply(delete_shipment(shipments, chats, u, t))

\* The server processes that handle requests side by side.
Workers == {"w1", "w2"}

\* A worker with no request.
Idle == [op |-> "idle"]

\* The second the run starts in, counted from an epoch before it.
StartTime == 1

Init ==
    /\ shipments = <<>>
    /\ chats = <<>>
    /\ inflight = [w \in Workers |-> Idle]
    /\ clock = StartTime
    /\ session = [e \in {u.email : u \in Callers} |-> <<>>]

(***************************************************************************)
(* Spec: the payment workflow.  An administrator files a held shipment     *)
(* with fees (or marks them paid), re-assesses, clears, releases the hold, *)
(* verifies and deletes; the owner, the administrator and a stranger       *)
(* initiate payment and post in the payment chat.                          *)
(***************************************************************************)
PanelForms ==
    {[BlankPanelForm EXCEPT !.status = "On Hold", !.owner_email = "Alice@Example.com ",
                            !.fees_amount = " 50 ", !.fees_paid = paid] :
        paid \in {"", "on"}}

UpdateForms ==
    {[BlankUpdateForm EXCEPT !.clear_fees = "1"],
     [BlankUpdateForm EXCEPT !.status = "In Transit"],
     [BlankUpdateForm EXCEPT !.status = "On Hold", !.fees_amount = "75"]}

PaymentForms ==
    {[payment_method |-> "Wire", payer_email |-> "Payer@Example.com"],
     [payment_method |-> "Wire", payer_email |-> " "],
     [payment_method |-> "", payer_email |-> "Payer@Example.com"]}

UserTexts == {"   ", "the code is abc12345 thanks"}

AdminTexts == {"", "ABC12345"}

Next ==
    \/ AdminPanel(PanelForms)
    \/ AdminUpdateShipment(UpdateForms)
    \/ Track
    \/ InitiatePayment(PaymentForms)
    \/ PaymentChat(UserTexts)
    \/ VerifyPayment
    \/ DeleteShipment

Spec == Init /\ [][Next]_vars

(***************************************************************************)
(* SpecHistory: the journal.  An administrator files a shipment under a    *)
(* status of any bucket, changes the status and posts in the admin chat;   *)
(* every handler that stores a shipment, and every tracking read,          *)
(* reconciles the automatic history.                                       *)
(***************************************************************************)
HistoryStatuses ==
    {"Created", "Picked Up", "In Transit", "Out for Delivery", "Delivered",
     "On Hold", "Pending Verification", "Customs Review"}

HistoryPanelForms ==
    {[BlankPanelForm EXCEPT !.status = st] : st \in HistoryStatuses}

HistoryUpdateForms ==
    {[BlankUpdateForm EXCEPT !.status = st] : st \in HistoryStatuses}
        \cup {[BlankUpdateForm EXCEPT !.status = "Custom Status",
                                      !.custom_status = st] :
                st \in {"on hold - customs", "On Hold In Transit"}}

NextHistory ==
    \/ AdminPanel(HistoryPanelForms)
    \/ AdminUpdateShipment(HistoryUpdateForms)
    \/ Track
    \/ AdminChat(AdminTexts)
    \/ DeleteShipment

SpecHistory == Init /\ [][NextHistory]_vars

(***************************************************************************)
(* SpecAdmin: estimates and routes.  An administrator files a shipment     *)
(* from London to Paris, then changes its destination, its estimated       *)
(* delivery (two dates, and "to be determined") and its route on both      *)
(* mutation surfaces; tracking reads fill in the current location.         *)
(***************************************************************************)
Dates == {"2026-12-01", "2026-12-05"}

Destinations == {"Paris", "Berlin"}

AdminPanelForms ==
    {[BlankPanelForm EXCEPT !.status = "In Transit", !.origin = "London",
                            !.destination = "Paris"]}
    \cup {[BlankPanelForm EXCEPT !.status = "In Transit", !.destination = d] :
            d \in Destinations}
    \cup {[BlankPanelForm EXCEPT !.status = "In Transit", !.estimated_delivery = d] :
            d \in Dates}
    \cup {[BlankPanelForm EXCEPT !.status = "In Transit",
                                 !.estimated_delivery_tbd_on_hold = "on"],
          [BlankPanelForm EXCEPT !.status = "In Transit",
                                 !.route = JSON_DOCS[1].raw]}

AdminUpdateForms ==
    {BlankUpdateForm}
    \cup {[BlankUpdateForm EXCEPT !.destination = d] : d \in Destinations}
    \cup {[BlankUpdateForm EXCEPT !.estimated_delivery = d] : d \in Dates}
    \cup {[BlankUpdateForm EXCEPT !.estimated_delivery_tbd_on_hold = "on"]}

NextAdmin ==
    \/ AdminPanel(AdminPanelForms)
    \/ AdminUpdateShipment(AdminUpdateForms)
    \/ Track
    \/ DeleteShipment

SpecAdmin == Init /\ [][NextAdmin]_vars

(***************************************************************************)
(* SpecChat: threads and owners.  An administrator files a held shipment   *)
(* with fees and no owner, with Alice or with Bob as owner, and files it   *)
(* again under another owner; the administrator opens and posts in the     *)
(* admin chat, before the shipment exists or after; owners initiate        *)
(* payment and post in the payment chat.                                   *)
(***************************************************************************)
Owners == {"", "alice@example.com", " Bob@Example.com "}

ChatPanelForms ==
    {[BlankPanelForm EXCEPT !.status = "On Hold", !.owner_email = o,
                            !.fees_amount = "50"] : o \in Owners}

NextChat ==
    \/ AdminPanel(ChatPanelForms)
    \/ AdminChat(AdminTexts)
    \/ PaymentChat(UserTexts)
    \/ InitiatePayment(PaymentForms)

SpecChat == Init /\ [][NextChat]_vars

(***************************************************************************)
(* SpecRace: requests whose load and save steps interleave.  A handler     *)
(* loads the whole shipments collection when it starts and writes the      *)
(* whole collection back when it saves; chat_add_message loads and saves   *)
(* the whole chats collection.  Nothing locks either file.  The admin      *)
(* panel and payment initiation set up two held shipments; inline updates  *)
(* and payment-chat posts then run step by step.                           *)
(***************************************************************************)
RaceIds == {"GLX1", "GLX2"}

\* The shipment the posts are about.
PostIds == {"GLX1"}

RacePanelForms ==
    {[BlankPanelForm EXCEPT !.tracking_id = t, !.status = "On Hold",
                            !.owner_email = "alice@example.com",
                            !.fees_amount = "50"] : t \in RaceIds}

RaceUpdateForms == {[BlankUpdateForm EXCEPT !.status = "In Transit"]}

RaceTexts == {"ABC12345", "hello"}

load_json(file) == file

save_json(file, data) == data

Request(op, u, t, form, text, pc, ss, cs) ==
    [op |-> op, u |-> u, t |-> t, form |-> form, text |-> text, pc |-> pc,
     ss |-> ss, cs |-> cs]

\* What the handler computes from the collections the request loaded.
Effect(req) ==
    IF req.op = "update"
    THEN admin_update_shipment(req.ss, req.cs, req.u, req.t, req.form)
    ELSE payment_chat(req.ss, req.cs, req.u, req.t, "POST", req.text)

\* The handler reaches its save_json(SHIPMENTS_FILE, shipments).
SavesShipments(req) ==
    IF req.op = "update" THEN is_admin(req.u) /\ Has(req.ss, req.t)
    ELSE Effect(req).shipments # req.ss

\* A save that writes the request's own entry into the stored collection.
SavedShipments_own_entry(req) ==
    IF SavesShipments(req)
    THEN [k \in DOMAIN shipments \cup {req.t} |->
            IF k = req.t THEN Effect(req).shipments[k] ELSE shipments[k]]
    ELSE shipments

\* The shipments file once the request is done.
SavedShipments(req) ==
    IF SavesShipments(req) THEN save_json(shipments, Effect(req).shipments)
    ELSE shipments

\* The chats file once the request is done: only a post writes it.
SavedChats(req) ==
    IF req.op = "post" THEN save_json(chats, Effect(req).chats) ELSE chats

\* A worker is handling this request of the operation for the tracking id.
Handling(op, t, text) ==
    \E w \in Workers :
        /\ inflight[w] # Idle
        /\ inflight[w].op = op /\ inflight[w].t = t /\ inflight[w].text = text

\* The administrator files a held shipment with fees: a request that runs
\* alone.
RaceSetup ==
    \E form \in RacePanelForms :
        /\ \A w \in Workers : inflight[w] = Idle
        /\ ~Has(shipments, form.tracking_id)
        /\ Apply(admin_panel(shipments, chats, AdminUser, "POST", form))

\* The owner initiates payment: a request that runs alone.
RaceInitiate ==
    \E t \in PostIds, code \in Codes :
        /\ \A w \in Workers : inflight[w] = Idle
        /\ Has(shipments, t) /\ ~Has(chats, t)
        /\ Apply(initiate_payment(shipments, chats, Alice, t,
                [payment_method |-> "Wire", payer_email |-> "payer@example.com"], code))

\* admin_update_shipment up to its load_json(SHIPMENTS_FILE).  The
\* administrator sends a status the shipment does not have, once at a time.
BeginUpdate ==
    \E w \in Workers, t \in RaceIds, form \in RaceUpdateForms :
        /\ inflight[w] = Idle
        /\ Has(shipments, t)
        /\ shipments[t].status # form.status /\ ~Handling("update", t, "")
        /\ inflight' = [inflight EXCEPT ![w] =
                Request("update", AdminUser, t, form, "", "loaded",
                        load_json(shipments), <<>>)]
        /\ UNCHANGED <<shipments, chats, clock, session>>

\* payment_chat up to its load_json(SHIPMENTS_FILE).  The owner sends a
\* text the thread does not hold, once at a time.
BeginPost ==
    \E w \in Workers, t \in PostIds, text \in RaceTexts :
        /\ inflight[w] = Idle
        /\ Has(shipments, t) /\ Has(chats, t)
        /\ CountMessages(chats[t].messages, "user", text) = 0
        /\ ~Handling("post", t, text)
        /\ inflight' = [inflight EXCEPT ![w] =
                Request("post", Alice, t, BlankUpdateForm, text, "loaded",
                        load_json(shipments), <<>>)]
        /\ UNCHANGED <<shipments, chats, clock, session>>

\* chat_add_message up to its load_json(CHATS_FILE).
LoadChats ==
    \E w \in Workers :
        /\ inflight[w] # Idle
        /\ inflight[w].op = "post" /\ inflight[w].pc = "loaded"
        /\ inflight' = [inflight EXCEPT ![w] =
                [@ EXCEPT !.pc = "posting", !.cs = load_json(chats)]]
        /\ UNCHANGED <<shipments, chats, clock, session>>

\* The rest of the handler: its saves.
Finish ==
    \E w \in Workers :
        /\ inflight[w] # Idle
        /\ inflight[w].op = "update" \/ inflight[w].pc = "posting"
        /\ Bounded([shipments |-> SavedShipments(inflight[w]),
                    chats |-> SavedChats(inflight[w])])
        /\ shipments' = SavedShipments(inflight[w])
        /\ chats' = SavedChats(inflight[w])
        /\ inflight' = [inflight EXCEPT ![w] = Idle]
        /\ UNCHANGED <<clock, session>>

NextRace ==
    \/ RaceSetup
    \/ RaceInitiate
    \/ BeginUpdate
    \/ BeginPost
    \/ LoadChats
    \/ Finish

SpecRace == Init /\ [][NextRace]_vars

(***************************************************************************)
(* SpecUnread: chat notifications.  Time passes; the administrator files   *)
(* two held shipments for Alice and posts in their admin chats; the        *)
(* owner initiates payment; the owner and a stranger open the payment     *)
(* chat or post in it, and the administrator posts in the first one,       *)
(* which marks the thread read in the caller's session.                    *)
(***************************************************************************)
MaxClock == 2

\* The messages the threads hold together in SpecUnread.
MaxMsgs == 2

UnreadIds == {"GLX1", "GLX2"}

\* Both shipments are Alice's.
UnreadPanelForms ==
    {[BlankPanelForm EXCEPT !.tracking_id = t, !.status = "On Hold",
                            !.owner_email = " Alice@Example.com",
                            !.fees_amount = "50"] : t \in UnreadIds}

RECURSIVE CountAll(_, _)
\* The messages of the given threads.
CountAll(cs, tids) ==
    IF tids = {} THEN 0
    ELSE LET t == CHOOSE x \in tids : TRUE
         IN  Len(cs[t].messages) + CountAll(cs, tids \ {t})

\* The runs of SpecUnread: Bounded, and few messages.
Short(r) ==
    /\ Bounded(r)
    /\ CountAll(r.chats, DOMAIN r.chats) <= MaxMsgs

\* A message or a watermark carries the timestamp.
Stamped(ts) ==
    \/ \E t \in DOMAIN chats : \E i \in 1..Len(chats[t].messages) :
            chats[t].messages[i].ts = ts
    \/ \E e \in DOMAIN session : \E t \in DOMAIN session[e] : session[e][t] = ts

\* A second passes, once the current one has stamped something.
Tick ==
    /\ clock < MaxClock
    /\ Stamped(clock)
    /\ clock' = clock + 1
    /\ UNCHANGED <<shipments, chats, inflight, session>>

UnreadFile ==
    \E form \in UnreadPanelForms :
        /\ ~Has(shipments, form.tracking_id)
        /\ Apply(admin_panel(shipments, chats, AdminUser, "POST", form))

UnreadAdminChat ==
    \E t \in UnreadIds :
        /\ Short(admin_chat(shipments, chats, AdminUser, t, "POST", "hello"))
        /\ Apply(admin_chat(shipments, chats, AdminUser, t, "POST", "hello"))

UnreadInitiate ==
    \E u \in {Alice}, t \in {"GLX1"}, code \in Codes :
        /\ Short(initiate_payment(shipments, chats, u, t,
                [payment_method |-> "Wire", payer_email |-> "payer@example.com"], code))
        /\ Apply(initiate_payment(shipments, chats, u, t,
                [payment_method |-> "Wire", payer_email |-> "payer@example.com"], code))

\* payment_chat from a followed browser: the session cookie comes back with
\* the thread marked read.
OpenPaymentChat ==
    \E u \in Callers, t \in UnreadIds, m \in Methods :
        /\ u = AdminUser => t = "GLX1" /\ m = "POST"
        /\ Short(payment_chat(shipments, chats, u, t, m, "thanks"))
        /\ shipments' = payment_chat(shipments, chats, u, t, m, "thanks").shipments
        /\ chats' = payment_chat(shipments, chats, u, t, m, "thanks").chats
        /\ session' = [session EXCEPT ![u.email] =
                            payment_chat_session(shipments, u, t, @)]
        /\ UNCHANGED <<inflight, clock>>

NextUnread ==
    \/ Tick
    \/ UnreadFile
    \/ UnreadAdminChat
    \/ UnreadInitiate
    \/ OpenPaymentChat

SpecUnread == Init /\ [][NextUnread]_vars

(***************************************************************************)
(* Vocabulary of the properties.                                           *)
(***************************************************************************)
\* The messages of a tracking id's thread (none while it has no thread).
Thread(t) == IF Has(chats, t) THEN chats[t].messages ELSE <<>>

ThreadOf(cs, t) == IF Has(cs, t) THEN cs[t].messages ELSE <<>>

IsPrefix(p, q) == Len(p) <= Len(q) /\ SubSeq(q, 1, Len(p)) = p

\* The text holds the code somewhere, letter case ignored.
ContainsIgnoreCase(code, text) ==
    \E i \in 1..Len(text) :
        /\ i + Len(code) - 1 <= Len(text)
        /\ Lower(SubSeq(text, i, i + Len(code) - 1)) = Lower(code)

IsBlank(text) == \A i \in 1..Len(text) : CharAt(text, i) = " "

\* The caller is an administrator or the shipment's recorded owner.
Authorised(shipment, u) ==
    \/ u.role = "admin"
    \/ u.email # "" /\ u.email = shipment.owner_email

\* Fee states of section 4.4.
Initiated(shipment) ==
    /\ IsFees(shipment.fees)
    /\ shipment.fees.init_code # ""
    /\ ~shipment.fees.init_code_received

CodeReceivedText == "Verification code received - awaiting payment details"
PaymentVerifiedText == "Payment Verified - Shipment Released"

\* Texts posted in the properties: blank, without the code, with the code in
\* upper, lower and mixed case, and with a proper prefix of the code.
ChatTexts ==
    {"", "   ", "hello", "the code is abc12345 thanks", "ABC12345",
     " Abc12345 ", "abc1234 5"}

MatchingTexts == {text \in ChatTexts : ContainsIgnoreCase("ABC12345", text)}

(***************************************************************************)
(* C1.  For a shipment whose fee is INITIATED, a payment-chat post (by the *)
(* owner or an administrator) whose text contains init_code, letter case   *)
(* ignored, performs the code-received transition: init_code_received and  *)
(* payment_submitted become true, the status becomes "On Hold", exactly    *)
(* one "Verification code received" entry is appended to the journal, and  *)
(* the thread gains the user's message followed by exactly one system      *)
(* message.  A post without the code leaves the shipment as it was.        *)
(***************************************************************************)
C1_CodeReceivedTransition ==
    \A t \in DOMAIN shipments : \A u \in AllCallers : \A text \in ChatTexts :
        LET before == shipments[t]
            r == payment_chat(shipments, chats, u, t, "POST", text)
            after == r.shipments[t]
            posted == ThreadOf(r.chats, t)
        IN  (Authorised(before, u) /\ Initiated(before)) =>
                IF ContainsIgnoreCase(before.fees.init_code, text)
                THEN /\ after.fees.init_code_received
                     /\ after.fees.payment_submitted
                     /\ after.status = "On Hold"
                     /\ IsPrefix(before.events, after.events)
                     /\ CountEvents(after.events, CodeReceivedText)
                          = CountEvents(before.events, CodeReceivedText) + 1
                     /\ Len(posted) = Len(Thread(t)) + 2
                     /\ IsPrefix(Thread(t), posted)
                     /\ posted[Len(posted) - 1] = [ts |-> clock, sender |-> "user", text |-> Strip(text)]
                     /\ posted[Len(posted)].sender = "system"
                ELSE after = before

\* The transition has fired on a shipment an administrator had released to
\* "In Transit": the owner's lower-case post is followed by the system's.
C1_Witness ==
    \E t \in DOMAIN shipments :
        LET s == shipments[t] IN
        /\ IsFees(s.fees) /\ s.fees.init_code_received /\ s.fees.payment_submitted
        /\ s.status = "On Hold"
        /\ s.events[Len(s.events)].description = CodeReceivedText
        /\ CountEvents(s.events, "Status updated: On Hold -> In Transit") = 1
        /\ Len(Thread(t)) >= 2
        /\ Thread(t)[Len(Thread(t)) - 1]
             = [ts |-> clock, sender |-> "user", text |-> "the code is abc12345 thanks"]
        /\ Thread(t)[Len(Thread(t))].sender = "system"

(***************************************************************************)
(* C2.  As specified: over any sequence of operations the journal holds at *)
(* most one "Verification code received" entry and the thread at most one  *)
(* system acknowledgment of code receipt.                                  *)
(***************************************************************************)
C2_AtMostOncePerThread ==
    /\ \A t \in DOMAIN shipments :
          CountEvents(shipments[t].events, CodeReceivedText) <= 1
    /\ \A t \in DOMAIN chats :
          CountMessages(Thread(t), "system", "Code received") <= 1

(***************************************************************************)
(* C2, amended.  The transition fires at most once per payment initiation: *)
(* in every prefix of a thread the system acknowledgments of code receipt  *)
(* do not outnumber the system initiation messages, and a journal holds no *)
(* more "Verification code received" entries than its thread holds         *)
(* acknowledgments.                                                        *)
(***************************************************************************)
C2_AtMostOncePerInitiation ==
    /\ \A t \in DOMAIN chats : \A n \in 0..Len(Thread(t)) :
          CountMessages(SubSeq(Thread(t), 1, n), "system", "Code received")
            <= CountMessages(SubSeq(Thread(t), 1, n), "system", "Payment initiated")
    /\ \A t \in DOMAIN shipments :
          CountEvents(shipments[t].events, CodeReceivedText)
            <= CountMessages(Thread(t), "system", "Code received")

\* Two initiations, each followed by its code: two entries, two acknowledgments.
C2_Witness ==
    \E t \in DOMAIN shipments :
        /\ CountEvents(shipments[t].events, CodeReceivedText) = 2
        /\ CountMessages(Thread(t), "system", "Code received") = 2
        /\ CountMessages(Thread(t), "system", "Payment initiated") = 2

(***************************************************************************)
(* C3.  When the correct code is posted twice in succession, only the      *)
(* first post transitions: the second appends its user message and leaves  *)
(* the shipment's fee fields, status and journal unchanged, with no second *)
(* system acknowledgment.                                                  *)
(***************************************************************************)
C3_SecondPostOnlyAppends ==
    \A t \in DOMAIN shipments : \A u1, u2 \in AllCallers :
      \A text1, text2 \in MatchingTexts :
        LET before == shipments[t]
            r1 == payment_chat(shipments, chats, u1, t, "POST", text1)
            r2 == payment_chat(r1.shipments, r1.chats, u2, t, "POST", text2)
        IN  (Authorised(before, u1) /\ Authorised(before, u2) /\ Initiated(before)
             /\ ContainsIgnoreCase(before.fees.init_code, text1)
             /\ ContainsIgnoreCase(before.fees.init_code, text2)) =>
                /\ r1.shipments[t] # before
                /\ r2.shipments = r1.shipments
                /\ ThreadOf(r2.chats, t)
                     = Append(ThreadOf(r1.chats, t),
                              [ts |-> clock, sender |-> "user", text |-> Strip(text2)])

\* The code was posted, acknowledged, and posted again.
C3_Witness ==
    \E t \in DOMAIN shipments :
        LET m == Thread(t) IN
        /\ IsFees(shipments[t].fees) /\ shipments[t].fees.init_code_received
        /\ Len(m) >= 3
        /\ m[Len(m)] = [ts |-> clock, sender |-> "user", text |-> "the code is abc12345 thanks"]
        /\ m[Len(m) - 1].sender = "system"
        /\ StartsWith(m[Len(m) - 1].text, "Code received")
        /\ m[Len(m) - 2] = [ts |-> clock, sender |-> "user", text |-> "the code is abc12345 thanks"]
        /\ CountEvents(shipments[t].events, CodeReceivedText) = 1

\* The two flags the code-received transition sets (false without a fee).
FeeFlags(ss, t) ==
    IF Has(ss, t) /\ IsFees(ss[t].fees)
    THEN <<ss[t].fees.init_code_received, ss[t].fees.payment_submitted>>
    ELSE <<FALSE, FALSE>>

(***************************************************************************)
(* C4.  As specified: only a message from the shipment owner triggers the  *)
(* code-received transition.  No message an administrator posts, through   *)
(* the admin chat or the payment chat, and no system-authored message (the *)
(* initiation message holds the code) sets init_code_received or           *)
(* payment_submitted.                                                      *)
(***************************************************************************)
C4_OnlyOwnerTriggers ==
    \A t \in DOMAIN shipments : \A text \in ChatTexts :
        /\ FeeFlags(admin_chat(shipments, chats, AdminUser, t, "POST", text).shipments, t)
             = FeeFlags(shipments, t)
        /\ \A form \in PaymentForms, code \in Codes : \A u \in AllCallers :
             LET r == initiate_payment(shipments, chats, u, t, form, code)
             IN  r.chats # chats => FeeFlags(r.shipments, t) = <<FALSE, FALSE>>
        /\ ~is_owner_of(shipments[t], AdminUser) =>
             FeeFlags(payment_chat(shipments, chats, AdminUser, t, "POST", text).shipments, t)
               = FeeFlags(shipments, t)

(***************************************************************************)
(* C5.  The administrator's verification takes effect only when the fee    *)
(* has payment_submitted = true and paid = false: it then sets paid, clears*)
(* payment_submitted, forces the status to "In Transit" and appends the    *)
(* journal entry "Payment Verified - Shipment Released".  In every other   *)
(* fee state, and for every other caller, the shipment is left unchanged.  *)
(***************************************************************************)
C5_VerifyOnlyWhenSubmitted ==
    \A t \in DOMAIN shipments : \A u \in AllCallers :
        LET before == shipments[t]
            r == verify_payment(shipments, chats, u, t)
            after == r.shipments[t]
        IN  /\ r.chats = chats
            /\ IF u.role = "admin" /\ IsFees(before.fees)
                  /\ before.fees.payment_submitted /\ ~before.fees.paid
               THEN /\ after.fees = [before.fees EXCEPT !.paid = TRUE,
                                                       !.payment_submitted = FALSE]
                    /\ after.status = "In Transit"
                    /\ IsPrefix(before.events, after.events)
                    /\ after.events[Len(before.events) + 1]
                         = Event("Admin Verification", PaymentVerifiedText)
                    /\ CountEvents(after.events, PaymentVerifiedText)
                         = CountEvents(before.events, PaymentVerifiedText) + 1
               ELSE r.shipments = shipments

\* A verified shipment: paid, in transit, the release journalled.
C5_Witness ==
    \E t \in DOMAIN shipments :
        /\ IsFees(shipments[t].fees)
        /\ shipments[t].fees.paid /\ ~shipments[t].fees.payment_submitted
        /\ shipments[t].status = "In Transit"
        /\ CountEvents(shipments[t].events, PaymentVerifiedText) = 1
        /\ CountEvents(shipments[t].events, "Status updated: On Hold -> In Transit") = 1

(***************************************************************************)
(* C6.  In a shipment's journal every "Payment Verified - Shipment         *)
(* Released" entry is preceded by a "Verification code received" entry.    *)
(***************************************************************************)
C6_CodeGatesRelease ==
    \A t \in DOMAIN shipments :
        LET ev == shipments[t].events IN
        \A i \in 1..Len(ev) :
            ev[i].description = PaymentVerifiedText =>
                \E j \in 1..(i - 1) : ev[j].description = CodeReceivedText

\* A released shipment whose fee was also, once, marked paid by hand.
C6_Witness ==
    \E t \in DOMAIN shipments :
        LET ev == shipments[t].events IN
        /\ \E i \in 1..Len(ev) : ev[i].description = PaymentVerifiedText
        /\ shipments[t].fees # NoFees
        /\ shipments[t].fees.amount = 75

\* Initiation forms: those of the runs, a whitespace-only one, a padded one.
InitiationForms ==
    PaymentForms \cup {[payment_method |-> "  ", payer_email |-> "  "],
                       [payment_method |-> " Card ", payer_email |-> " P@X.io "]}

(***************************************************************************)
(* C7.  Payment initiation is rejected with no state change (no fee field  *)
(* modified, no code generated, no chat message appended) whenever the fee *)
(* is absent, the fee is paid, or payment_method or payer_email is blank;  *)
(* otherwise (for the owner or an administrator) it stores both fields, a  *)
(* fresh 8-character code, init_code_received = false and                  *)
(* payment_submitted = false.                                              *)
(***************************************************************************)
C7_InitiationGuard ==
    \A t \in DOMAIN shipments : \A u \in AllCallers :
      \A form \in InitiationForms, code \in Codes :
        LET before == shipments[t]
            r == initiate_payment(shipments, chats, u, t, form, code)
            after == r.shipments[t]
        IN  IF ~IsFees(before.fees) \/ before.fees.paid
               \/ IsBlank(form.payment_method) \/ IsBlank(form.payer_email)
               \/ ~Authorised(before, u)
            THEN r.shipments = shipments /\ r.chats = chats
            ELSE /\ after.fees.payment_method = Strip(form.payment_method)
                 /\ after.fees.payer_email = Lower(Strip(form.payer_email))
                 /\ after.fees.init_code = code
                 /\ Len(after.fees.init_code) = CodeLen
                 /\ ~after.fees.init_code_received
                 /\ ~after.fees.payment_submitted
                 /\ after.fees.amount = before.fees.amount
                 /\ after.fees.paid = before.fees.paid
                 /\ [after EXCEPT !.fees = before.fees] = before

\* A fee re-initiated after its code had been received: the flags are
\* reset, the fields and the code stored.
C7_Witness ==
    \E t \in DOMAIN shipments :
        LET s == shipments[t] IN
        /\ IsFees(s.fees) /\ ~s.fees.paid
        /\ s.fees.init_code \in Codes
        /\ s.fees.payment_method = "Wire"
        /\ s.fees.payer_email = "payer@example.com"
        /\ ~s.fees.init_code_received /\ ~s.fees.payment_submitted
        /\ CountEvents(s.events, CodeReceivedText) = 1
        /\ CountMessages(Thread(t), "system", "Payment initiated") = 2

(***************************************************************************)
(* The journal's automatic history.                                        *)
(***************************************************************************)
\* The milestones: key, and the description of the event it stands for.
Milestones ==
    {<<"milestone_created", "Shipment record created">>,
     <<"milestone_picked_up", "Shipment picked up">>,
     <<"milestone_in_transit", "Shipment is in transit">>,
     <<"milestone_out_for_delivery", "Out for delivery">>,
     <<"milestone_delivered", "Shipment delivered successfully">>,
     <<"milestone_on_hold", "Shipment placed on hold">>}

\* Keys handed to add_auto_event_once: milestones, one no handler uses, none.
AutoKeys == {m[1] : m \in Milestones} \cup {"milestone_returned", ""}

KeySet(shipment) ==
    {shipment.auto_event_keys[i] : i \in 1..Len(shipment.auto_event_keys)}

\* Statuses a reconciliation is tried under, every bucket among them.
ReconcileStatuses == HistoryStatuses \cup {"", "on hold - customs", "DELIVERED "}

(***************************************************************************)
(* C8.  Reconciling the automatic history twice in succession, with no     *)
(* status change in between, appends no event and adds no milestone key on *)
(* the second call, which returns false: for every stored shipment, also   *)
(* stripped of its milestone keys, under a status of every bucket.  A      *)
(* stored shipment has been reconciled by the handler that stored it, so   *)
(* reconciling it again changes nothing.                                   *)
(***************************************************************************)
C8_ReconcileIdempotent ==
    \A t \in DOMAIN shipments :
        /\ ensure_auto_history(shipments[t])
             = [shipment |-> shipments[t], ret |-> FALSE]
        /\ \A st \in ReconcileStatuses : \A keys \in {shipments[t].auto_event_keys, <<>>} :
             LET s == [shipments[t] EXCEPT !.status = st, !.auto_event_keys = keys]
                 r1 == ensure_auto_history(s)
                 r2 == ensure_auto_history(r1.shipment)
             IN  /\ r2.ret = FALSE
                 /\ r2.shipment = r1.shipment
                 /\ r1.ret = (r1.shipment # s)

\* A shipment that went on hold and then into transit, its three milestones
\* journalled, which a further reconciliation leaves alone.
C8_Witness ==
    \E t \in DOMAIN shipments :
        /\ shipments[t].status = "In Transit"
        /\ shipments[t].auto_event_keys
             = <<"milestone_created", "milestone_on_hold", "milestone_in_transit">>
        /\ ~ensure_auto_history(shipments[t]).ret
        /\ ensure_auto_history([shipments[t] EXCEPT !.status = "Delivered"]).ret

(***************************************************************************)
(* C9.  Milestones are one-shot per bucket for the life of the shipment:   *)
(* over any sequence of status changes and reconciliations, each bucket's  *)
(* milestone event and the "Shipment record created" event occur at most   *)
(* once in the journal, and exactly once when the shipment is, or has     *)
(* been, in the bucket; no key is recorded twice.                          *)
(***************************************************************************)
C9_MilestonesOneShot ==
    \A t \in DOMAIN shipments :
        LET s == shipments[t]
            bucket == normalize_status_bucket(s.status)
        IN
        /\ \A m \in Milestones : CountEvents(s.events, m[2]) <= 1
        /\ CountEvents(s.events, "Shipment record created") = 1
        /\ \A m \in Milestones :
             m[1] = "milestone_" \o bucket => CountEvents(s.events, m[2]) = 1
        /\ Cardinality(KeySet(s)) = Len(s.auto_event_keys)

\* on_hold, then in_transit, then on_hold again: the hold's milestone once.
C9_Witness ==
    \E t \in DOMAIN shipments :
        LET s == shipments[t] IN
        /\ CountEvents(s.events, "Status updated: N/A -> On Hold") = 1
        /\ CountEvents(s.events, "Status updated: On Hold -> In Transit") = 1
        /\ CountEvents(s.events, "Status updated: In Transit -> On Hold") = 1
        /\ s.status = "On Hold"
        /\ CountEvents(s.events, "Shipment placed on hold") = 1
        /\ CountEvents(s.events, "Shipment is in transit") = 1

\* r is s with one event appended and the key recorded, returning true.
AppendsOnce(s, key, r) ==
    /\ r.ret = TRUE
    /\ r.shipment.events = Append(s.events, Event("Hub", "Scanned"))
    /\ r.shipment.auto_event_keys = Append(s.auto_event_keys, key)
    /\ [r.shipment EXCEPT !.events = s.events, !.auto_event_keys = s.auto_event_keys] = s

KeyText(key) ==
    IF \E m \in Milestones : m[1] = key
    THEN (CHOOSE m \in Milestones : m[1] = key)[2]
    ELSE IF key = "estimated_delivery:cleared" THEN "Estimated delivery cleared"
    ELSE IF StartsWith(key, "estimated_delivery:")
    THEN "Estimated delivery set: " \o SubSeq(key, 20, Len(key))
    ELSE "?"

\* Events only add_auto_event_once appends.
IsAutoEvent(e) ==
    \/ \E m \in Milestones : m[2] = e.description
    \/ StartsWith(e.description, "Estimated delivery")

KeyTexts(keys) == [i \in 1..Len(keys) |-> KeyText(keys[i])]

AutoTexts(events) ==
    LET auto == SelectSeq(events, IsAutoEvent)
    IN  [i \in 1..Len(auto) |-> auto[i].description]

\* The shipment before a step: the stored one, or the blank one a creation
\* starts from.
Stored(ss, t) == IF Has(ss, t) THEN ss[t] ELSE EmptyShipment

(***************************************************************************)
(* C11.  In every reachable state of every shipment, each key of the       *)
(* milestone-key set corresponds to exactly one event of the journal: no   *)
(* key is recorded twice, none is present without its event, and the keys  *)
(* in their order name the key-guarded events in theirs.  Every operation  *)
(* adds a key if and only if it appends that key's event in the same       *)
(* operation: the keys a step adds name, in order, the key-guarded events   *)
(* it appends.                                                             *)
(***************************************************************************)
KeysMatchEvents ==
    \A t \in DOMAIN shipments :
        LET s == shipments[t] IN
        /\ Cardinality(KeySet(s)) = Len(s.auto_event_keys)
        /\ \A k \in KeySet(s) : CountEvents(s.events, KeyText(k)) = 1
        /\ KeyTexts(s.auto_event_keys) = AutoTexts(s.events)

KeyAddedWithEvent ==
    \A t \in DOMAIN shipments' :
        LET before == Stored(shipments, t)
            after == shipments'[t]
        IN  /\ IsPrefix(before.events, after.events)
            /\ IsPrefix(before.auto_event_keys, after.auto_event_keys)
            /\ KeyTexts(SubSeq(after.auto_event_keys,
                               Len(before.auto_event_keys) + 1,
                               Len(after.auto_event_keys)))
                 = AutoTexts(SubSeq(after.events, Len(before.events) + 1,
                                    Len(after.events)))

C11_KeysMatchEvents == []KeysMatchEvents /\ [][KeyAddedWithEvent]_vars

\* A date set, cleared, replaced and set again: four estimate changes, three
\* keys, three events.
C11_Witness ==
    \E t \in DOMAIN shipments :
        LET s == shipments[t] IN
        /\ s.estimated_delivery = "2026-12-01"
        /\ {"estimated_delivery:2026-12-01", "estimated_delivery:2026-12-05",
            "estimated_delivery:cleared"} \subseteq KeySet(s)
        /\ CountEvents(s.events, "Estimated delivery set: 2026-12-01") = 1
        /\ s.events[Len(s.events)].description # "Estimated delivery set: 2026-12-01"
        /\ Len(s.auto_event_keys) = 5

(***************************************************************************)
(* Fee assessment by the administrator.                                    *)
(***************************************************************************)
\* Spellings of a held status, all of the on_hold bucket.
OnHoldStatuses == {"On Hold", "on hold", "On Hold - Customs", "Pending Verification"}

\* Amounts float() parses, as the form sends them.
ParseableAmounts == {"75", " 120 "}

\* The shipment an administrator's request leaves under the tracking id.
Updated(r, t) == r.shipments[t]

(***************************************************************************)
(* C12.  As specified: a Fee is created whenever an administrator update   *)
(* supplies a parseable amount while the shipment's status falls in the    *)
(* on_hold bucket, for every status text normalize_status_bucket           *)
(* classifies as on_hold and not only for one exact spelling: on both      *)
(* admin surfaces the shipment ends with a Fee of that amount.             *)
(***************************************************************************)
C12_FeeCreatedForOnHoldBucket ==
    \A t \in DOMAIN shipments : \A st \in OnHoldStatuses : \A amount \in ParseableAmounts :
        normalize_status_bucket(st) = "on_hold" =>
            LET viaUpdate ==
                    Updated(admin_update_shipment(shipments, chats, AdminUser, t,
                        [BlankUpdateForm EXCEPT !.status = "Custom Status",
                                                !.custom_status = st,
                                                !.fees_amount = amount]), t)
                viaPanel ==
                    Updated(admin_panel(shipments, chats, AdminUser, "POST",
                        [BlankPanelForm EXCEPT !.tracking_id = t, !.status = st,
                                               !.fees_amount = amount]), t)
            IN  /\ IsFees(viaUpdate.fees) /\ viaUpdate.fees.amount = to_float(amount)
                /\ IsFees(viaPanel.fees) /\ viaPanel.fees.amount = to_float(amount)

\* Reasons as the form sends them: none (the default applies) and a padded one.
Reasons == {"", " Import duty "}

\* The two requests that assess a fee on a held shipment: the admin panel's
\* form and the inline update, neither clearing fees nor marking them paid.
Assessments(t, amount, reason) ==
    {admin_panel(shipments, chats, AdminUser, "POST",
        [BlankPanelForm EXCEPT !.tracking_id = t, !.status = "On Hold",
                               !.fees_amount = amount, !.fees_reason = reason]),
     admin_update_shipment(shipments, chats, AdminUser, t,
        [BlankUpdateForm EXCEPT !.status = "On Hold", !.fees_amount = amount,
                                !.fees_reason = reason])}

ReasonSet(reason) == IF Strip(reason) = "" THEN "Customs and Taxes" ELSE Strip(reason)

(***************************************************************************)
(* C13.  As specified: immediately after an administrator update that      *)
(* assesses a fee amount (status on hold, parseable amount, no clear flag, *)
(* no paid flag) the Fee has the amount and the reason set, paid = false   *)
(* and payment_submitted = false, whatever the Fee's state was before.     *)
(***************************************************************************)
C13_AssessmentResetsFee ==
    \A t \in DOMAIN shipments : \A amount \in ParseableAmounts : \A reason \in Reasons :
        \A r \in Assessments(t, amount, reason) :
            LET fees == Updated(r, t).fees IN
            /\ IsFees(fees)
            /\ fees.amount = to_float(amount)
            /\ fees.reason = ReasonSet(reason)
            /\ ~fees.paid
            /\ ~fees.payment_submitted

(***************************************************************************)
(* C13, amended.  Immediately after an administrator update that assesses  *)
(* a fee amount the Fee has the amount and the reason set and paid =       *)
(* false; payment_submitted, the verification code, init_code_received and *)
(* the payer's fields are what they were before the update, and are blank  *)
(* or false only when the shipment had no Fee.  The Fee is ASSESSED when   *)
(* it was absent or ASSESSED before; an INITIATED Fee stays INITIATED and  *)
(* a CODE_RECEIVED Fee stays CODE_RECEIVED.                                *)
(***************************************************************************)
C13_AssessmentKeepsProgress ==
    \A t \in DOMAIN shipments : \A amount \in ParseableAmounts : \A reason \in Reasons :
        \A r \in Assessments(t, amount, reason) :
            LET before == IF IsFees(shipments[t].fees) THEN shipments[t].fees ELSE NewFees
                fees == Updated(r, t).fees
            IN  /\ IsFees(fees)
                /\ fees.amount = to_float(amount)
                /\ fees.reason = ReasonSet(reason)
                /\ ~fees.paid
                /\ fees.payment_submitted = before.payment_submitted
                /\ fees.init_code = before.init_code
                /\ fees.init_code_received = before.init_code_received
                /\ fees.payment_method = before.payment_method
                /\ fees.payer_email = before.payer_email
                /\ ~IsFees(shipments[t].fees) =>
                     ~fees.payment_submitted /\ fees.init_code = ""

\* A CODE_RECEIVED fee of 50 which the assessment at 75 leaves submitted,
\* its code received.
C13_Witness ==
    \E t \in DOMAIN shipments :
        LET fees == shipments[t].fees IN
        /\ IsFees(fees) /\ fees.amount = 50 /\ ~fees.paid
        /\ fees.payment_submitted /\ fees.init_code_received
        /\ \A r \in Assessments(t, "75", "") :
             /\ Updated(r, t).fees.amount = 75
             /\ Updated(r, t).fees.payment_submitted
             /\ Updated(r, t).fees.init_code_received

\* Statuses an inline update may carry: none, held, released, custom.
UpdateStatuses == {"", "On Hold", "In Transit", "Pending Verification"}

(***************************************************************************)
(* C14.  An administrator update carrying the clear-fees flag leaves the   *)
(* shipment with no Fee, from any prior fee state and whatever status,     *)
(* amount and reason the same update supplies.                             *)
(***************************************************************************)
C14_ClearFeesOverrides ==
    \A t \in DOMAIN shipments : \A st \in UpdateStatuses :
      \A amount \in ParseableAmounts \cup {"", "abc"} : \A reason \in Reasons :
        LET form == [BlankUpdateForm EXCEPT !.clear_fees = "1", !.status = st,
                                            !.fees_amount = amount,
                                            !.fees_reason = reason]
            after == Updated(admin_update_shipment(shipments, chats, AdminUser, t, form), t)
        IN  /\ after.fees = NoFees
            /\ after.status = (IF st = "" THEN shipments[t].status ELSE st)

\* A fee cleared after its verification code had been received.
C14_Witness ==
    \E t \in DOMAIN shipments :
        /\ shipments[t].fees = NoFees
        /\ CountEvents(shipments[t].events, CodeReceivedText) = 1
        /\ shipments[t].status = "On Hold"

(***************************************************************************)
(* C15.  When an admin-panel update carries the "fees paid" flag and the   *)
(* shipment has a Fee (its own, or the one the same update assesses), the  *)
(* Fee ends with paid = true and payment_submitted = false from any prior  *)
(* fee state, the code-received transition not being required: the        *)
(* verification code and init_code_received are left as they were.  With   *)
(* no Fee the flag does nothing.                                           *)
(***************************************************************************)
C15_FeesPaidFlag ==
    \A t \in DOMAIN shipments : \A st \in {"On Hold", "In Transit"} :
      \A amount \in {"", "75"} :
        LET before == shipments[t].fees
            form == [BlankPanelForm EXCEPT !.tracking_id = t, !.status = st,
                                           !.fees_amount = amount, !.fees_paid = "on"]
            fees == Updated(admin_panel(shipments, chats, AdminUser, "POST", form), t).fees
        IN  IF IsFees(before) \/ (st = "On Hold" /\ amount = "75")
            THEN /\ IsFees(fees)
                 /\ fees.paid
                 /\ ~fees.payment_submitted
                 /\ IsFees(before) =>
                      /\ fees.init_code = before.init_code
                      /\ fees.init_code_received = before.init_code_received
            ELSE fees = NoFees

\* An INITIATED fee marked paid: the code was issued and never received.
C15_Witness ==
    \E t \in DOMAIN shipments :
        LET fees == shipments[t].fees IN
        /\ IsFees(fees) /\ fees.paid /\ ~fees.payment_submitted
        /\ fees.init_code \in Codes /\ ~fees.init_code_received
        /\ CountEvents(shipments[t].events, CodeReceivedText) = 0
        /\ CountEvents(shipments[t].events, PaymentVerifiedText) = 0

(***************************************************************************)
(* Status buckets.                                                         *)
(***************************************************************************)
\* The precedence list: bucket, and the texts that select it.
BucketPrecedence ==
    << <<"delivered", {"delivered"}>>,
       <<"out_for_delivery", {"out for delivery"}>>,
       <<"in_transit", {"transit"}>>,
       <<"picked_up", {"picked up"}>>,
       <<"on_hold", {"hold", "pending verification"}>>,
       <<"created", {"created"}>> >>

Selects(i, status) ==
    \E text \in BucketPrecedence[i][2] : ContainsIgnoreCase(text, status)

\* The first bucket of the list, from position i on, one of whose texts
\* occurs in the status.
RECURSIVE FirstMatchFrom(_, _)
FirstMatchFrom(i, status) ==
    IF i > Len(BucketPrecedence) THEN "other"
    ELSE IF Selects(i, status) THEN BucketPrecedence[i][1]
    ELSE FirstMatchFrom(i + 1, status)

FirstMatch(status) == FirstMatchFrom(1, status)

\* Statuses of several buckets and of none, in any letter case; the stored
\* statuses give the ones of a single bucket.
BucketStatuses ==
    {"", "On Hold In Transit", " pending VERIFICATION ", "Undelivered",
     "In Transit - Out For Delivery", "Picked up, on hold", "Created - Hold",
     "Withheld", "Returned"}

\* The milestone event a reconciliation journals for a bucket, if any.
BucketText(bucket) ==
    IF \E m \in Milestones : m[1] = "milestone_" \o bucket
    THEN (CHOOSE m \in Milestones : m[1] = "milestone_" \o bucket)[2]
    ELSE "Shipment record created"

(***************************************************************************)
(* C16.  normalize_status_bucket(status) is the first match of the fixed   *)
(* precedence list delivered, out_for_delivery ("out for delivery"),       *)
(* in_transit ("transit"), picked_up ("picked up"), on_hold ("hold" or     *)
(* "pending verification"), created, else other, by substring tests that   *)
(* ignore letter case; a status holding both "hold" and "transit" ("On     *)
(* Hold In Transit") buckets to in_transit.  A reconciliation under the    *)
(* status journals the milestone of that bucket.                           *)
(***************************************************************************)
C16_BucketPrecedence ==
    \A t \in DOMAIN shipments :
        /\ \A st \in BucketStatuses \cup {shipments[t].status} :
                /\ normalize_status_bucket(st) = FirstMatch(st)
                /\ st = "On Hold In Transit" => normalize_status_bucket(st) = "in_transit"
        /\ \A st \in {"On Hold In Transit", shipments[t].status} :
                CountEvents(ensure_auto_history([shipments[t] EXCEPT !.status = st])
                                .shipment.events,
                            BucketText(FirstMatch(st))) = 1

\* The status "On Hold In Transit", filed after a plain "Created": the
\* transit milestone is journalled, the hold's is not.
C16_Witness ==
    \E t \in DOMAIN shipments :
        LET s == shipments[t] IN
        /\ s.status = "On Hold In Transit"
        /\ s.auto_event_keys = <<"milestone_created", "milestone_in_transit">>
        /\ CountEvents(s.events, "Shipment is in transit") = 1
        /\ CountEvents(s.events, "Shipment placed on hold") = 0

(***************************************************************************)
(* Visibility of the tracking view.                                        *)
(***************************************************************************)
RedactedStatus ==
    "Package held for customs fees - log in to continue and take further action"

\* The viewer is an administrator or the logged-in recorded owner.
Privileged(shipment, u) ==
    u # Anonymous /\ (u.role = "admin" \/ Authorised(shipment, u))

\* Shipments differing from the given one in real status, fee amount, fee
\* reason, payer data or verification code only.
Variants(shipment) ==
    {[shipment EXCEPT !.status = st, !.fees.amount = assessed[1],
                      !.fees.reason = assessed[2], !.fees.payer_email = payer[1],
                      !.fees.payment_method = payer[2], !.fees.init_code = payer[3]] :
        st \in {shipment.status, "Delivered"},
        assessed \in {<<shipment.fees.amount, shipment.fees.reason>>,
                      <<to_float("9000"), "Seized goods">>},
        payer \in {<<shipment.fees.payer_email, shipment.fees.payment_method,
                     shipment.fees.init_code>>,
                   <<"payer@example.com", "Crypto", "ABC12345">>,
                   <<"", "", "">>}}

(***************************************************************************)
(* C17.  For a shipment whose Fee has paid=false, the tracking view of a   *)
(* viewer who is neither the owner nor an administrator holds the fixed    *)
(* redacted status and a fee object of just an existence flag and          *)
(* paid=false: its status and fee fields are the same for any two          *)
(* shipments that differ in real status, amount, reason, payer data or     *)
(* verification code only.  The owner and an administrator receive the     *)
(* real Fee.                                                               *)
(***************************************************************************)
C17_RedactedView ==
    \A t \in DOMAIN shipments : \A u \in AllCallers :
        LET s == shipments[t] IN
        IsFees(s.fees) /\ ~s.fees.paid =>
            IF Privileged(s, u)
            THEN track_view(s, u).fees = s.fees
            ELSE \A v \in Variants(s) :
                    /\ track_view(v, u).status = RedactedStatus
                    /\ track_view(v, u).fees = [exists |-> TRUE, paid |-> FALSE]
                    /\ track_view(v, u).status = track_view(s, u).status
                    /\ track_view(v, u).fees = track_view(s, u).fees

\* An unpaid Fee with a verification code and payer data on a shipment
\* Alice owns: Bob and an anonymous viewer get the redacted view, Alice the
\* real Fee.
C17_Witness ==
    \E t \in DOMAIN shipments :
        LET s == shipments[t] IN
        /\ IsFees(s.fees) /\ ~s.fees.paid
        /\ s.fees.init_code \in Codes /\ s.fees.payer_email # ""
        /\ Privileged(s, Alice) /\ ~Privileged(s, Bob)
        /\ track_view(s, Bob).status = RedactedStatus
        /\ track_view(s, Anonymous).fees = [exists |-> TRUE, paid |-> FALSE]
        /\ track_view(s, Alice).fees = s.fees
        /\ track_view(s, Alice).status # RedactedStatus

(***************************************************************************)
(* Authorization.                                                          *)
(***************************************************************************)
\* The caller is neither an administrator nor the recorded owner of t.
Outsider(u, t) ==
    /\ u = Anonymous \/ u.role # "admin"
    /\ ~(Has(shipments, t) /\ Privileged(shipments[t], u))

\* The caller is not an administrator.
NotAdmin(u) == u = Anonymous \/ u.role # "admin"

\* Administrator requests: fee assessments, a clearing, the fees-paid flag.
FeePanelForms ==
    PanelForms \cup
    {[BlankPanelForm EXCEPT !.status = "On Hold", !.fees_amount = amount,
                            !.fees_reason = reason, !.fees_paid = paid] :
        amount \in ParseableAmounts, reason \in Reasons, paid \in {"", "on"}}

FeeUpdateForms ==
    UpdateForms \cup
    {[BlankUpdateForm EXCEPT !.status = "On Hold", !.fees_amount = amount,
                             !.fees_reason = reason, !.clear_fees = clear] :
        amount \in ParseableAmounts, reason \in Reasons, clear \in {"", "1"}}

Unchanged(r) == r.shipments = shipments /\ r.chats = chats

(***************************************************************************)
(* C18.  Authorization gates hold for every request.  Payment initiation   *)
(* and a payment-chat request of a caller who is neither an administrator  *)
(* nor the shipment's recorded owner leave shipments and chat threads      *)
(* unchanged, and so do the admin panel and inline update (fee assessment, *)
(* fee clearing, the fees-paid flag) and payment verification of a caller  *)
(* who is not an administrator.                                            *)
(***************************************************************************)
C18_AuthorizationGates ==
    \A t \in TrackingIds : \A u \in AllCallers :
        /\ Outsider(u, t) =>
            /\ \A form \in InitiationForms, code \in Codes :
                    Unchanged(initiate_payment(shipments, chats, u, t, form, code))
            /\ \A m \in Methods, text \in ChatTexts :
                    Unchanged(payment_chat(shipments, chats, u, t, m, text))
        /\ NotAdmin(u) =>
            /\ \A m \in Methods, form \in FeePanelForms :
                    Unchanged(admin_panel(shipments, chats, u, m, form))
            /\ \A form \in FeeUpdateForms :
                    Unchanged(admin_update_shipment(shipments, chats, u, t, form))
            /\ Unchanged(verify_payment(shipments, chats, u, t))

\* A submitted, unpaid Fee on Alice's shipment.  Bob's initiation and his
\* post change nothing where Alice's do; Alice's clearing, assessment and
\* verification change nothing where the administrator's do.
C18_Witness ==
    \E t \in DOMAIN shipments :
        LET s == shipments[t]
            form == [payment_method |-> "Wire", payer_email |-> "Payer@Example.com"]
            clear == [BlankUpdateForm EXCEPT !.clear_fees = "1"]
            assess == [BlankPanelForm EXCEPT !.tracking_id = t, !.status = "On Hold",
                                             !.fees_amount = "75"]
        IN  /\ IsFees(s.fees) /\ ~s.fees.paid /\ s.fees.payment_submitted
            /\ Outsider(Bob, t) /\ ~Outsider(Alice, t) /\ NotAdmin(Alice)
            /\ Unchanged(initiate_payment(shipments, chats, Bob, t, form, "ABC12345"))
            /\ ~Unchanged(initiate_payment(shipments, chats, Alice, t, form, "ABC12345"))
            /\ Unchanged(payment_chat(shipments, chats, Bob, t, "POST", "hello"))
            /\ ~Unchanged(payment_chat(shipments, chats, Alice, t, "POST", "hello"))
            /\ Unchanged(admin_update_shipment(shipments, chats, Alice, t, clear))
            /\ ~Unchanged(admin_update_shipment(shipments, chats, AdminUser, t, clear))
            /\ Unchanged(admin_panel(shipments, chats, Alice, "POST", assess))
            /\ ~Unchanged(admin_panel(shipments, chats, AdminUser, "POST", assess))
            /\ Unchanged(verify_payment(shipments, chats, Alice, t))
            /\ ~Unchanged(verify_payment(shipments, chats, AdminUser, t))

(***************************************************************************)
(* Interleaved requests.                                                   *)
(***************************************************************************)
\* The worker's request ends in this step.
Finishes(w) == inflight[w] # Idle /\ inflight'[w] = Idle

\* The save of the worker's request: the shipments file becomes what the
\* handler computed from the collection it loaded, so every other entry is
\* back to what was loaded, whatever was stored since; a post does the same
\* to the chats file.
LastWriterWins ==
    \A w \in Workers :
        Finishes(w) =>
            LET req == inflight[w] IN
            /\ SavesShipments(req) =>
                /\ DOMAIN shipments' = DOMAIN req.ss
                /\ \A k \in DOMAIN req.ss \ {req.t} : shipments'[k] = req.ss[k]
                /\ shipments'[req.t] = Effect(req).shipments[req.t]
            /\ ~SavesShipments(req) => shipments' = shipments
            /\ req.op = "post" =>
                /\ DOMAIN chats' = DOMAIN req.cs
                /\ \A k \in DOMAIN req.cs \ {req.t} : chats'[k] = req.cs[k]
                /\ chats'[req.t] = Effect(req).chats[req.t]

\* The thread holds the acknowledgement of the code, the stored Fee and
\* journal show no code received, and the shipment's status is the one it
\* was filed with, never changed.
ErasedTransition(t) ==
    /\ Has(shipments, t) /\ IsFees(shipments[t].fees)
    /\ CountMessages(Thread(t), "system", CodeReceivedMessage) = 1
    /\ CountMessages(Thread(t), "system", "Payment initiated") = 1
    /\ shipments[t].fees.init_code \in Codes
    /\ ~shipments[t].fees.init_code_received
    /\ ~shipments[t].fees.payment_submitted
    /\ CountEvents(shipments[t].events, CodeReceivedText) = 0
    /\ CountEvents(shipments[t].events, "Status updated") = 1
    /\ shipments[t].status = "On Hold"

\* The stored Fee and journal show the code received, the thread holds
\* neither the owner's message with the code nor its acknowledgement, but a
\* later message of the owner.
LostMessage ==
    \E t \in PostIds :
        /\ Has(shipments, t) /\ IsFees(shipments[t].fees)
        /\ shipments[t].fees.init_code_received
        /\ CountEvents(shipments[t].events, CodeReceivedText) = 1
        /\ CountMessages(Thread(t), "system", CodeReceivedMessage) = 0
        /\ CountMessages(Thread(t), "user", "ABC12345") = 0
        /\ CountMessages(Thread(t), "user", "hello") = 1

(***************************************************************************)
(* C19.  Each operation loads a whole collection, mutates it and saves it  *)
(* back with no locking, so the persisted state after a save reflects the  *)
(* last writer only: what it loaded plus its own change.  Whatever another *)
(* request saved between this request's load and its save is lost, for the *)
(* same tracking id and for any other of the collection, in the shipments  *)
(* file and in the chats file.                                             *)
(***************************************************************************)
C19_LastWriterWins == [][LastWriterWins]_vars

\* An administrator's update of GLX2, loaded before the owner's code was
\* received on GLX1 and saved after it, has erased init_code_received and
\* payment_submitted of GLX1; no worker is busy any more.
C19_Witness ==
    /\ ErasedTransition("GLX1")
    /\ Has(shipments, "GLX2") /\ shipments["GLX2"].status = "In Transit"
    /\ \A w \in Workers : inflight[w] = Idle

(***************************************************************************)
(* Route regeneration.                                                     *)
(***************************************************************************)
\* Destinations an update can carry: the stored ones and a new one.
NewDestinations == Destinations \cup {"Madrid"}

\* The panel form and the inline update that change the destination only.
PanelDestination(t, status, d) ==
    [BlankPanelForm EXCEPT !.tracking_id = t, !.status = status, !.destination = d]

UpdateDestination(d) == [BlankUpdateForm EXCEPT !.destination = d]

\* The route stored for t after the request.
RouteAfter(r, t) == r.shipments[t].route

\* On the admin panel a changed destination replaces a non-empty route by
\* the generated one, and an unchanged one keeps it.
PanelRegenerates ==
    \A t \in DOMAIN shipments : \A d \in NewDestinations :
        LET s == shipments[t]
            r == admin_panel(shipments, chats, AdminUser, "POST",
                             PanelDestination(t, s.status, d))
        IN  Len(s.route) > 0 /\ Strip(s.origin) # "" /\ Strip(s.status) # "" =>
                RouteAfter(r, t) = IF Strip(d) # Strip(s.destination)
                                   THEN generate_route(s.origin, Strip(d))
                                   ELSE s.route

\* The same on the inline update.
UpdateRegenerates ==
    \A t \in DOMAIN shipments : \A d \in NewDestinations :
        LET s == shipments[t]
            r == admin_update_shipment(shipments, chats, AdminUser, t, UpdateDestination(d))
        IN  Len(s.route) > 0 /\ Strip(s.origin) # "" =>
                RouteAfter(r, t) = IF Strip(d) # Strip(s.destination)
                                   THEN generate_route(s.origin, Strip(d))
                                   ELSE s.route

(***************************************************************************)
(* C20.  As specified: on both administrator surfaces, the admin panel     *)
(* form and the inline update, an update that changes the destination      *)
(* while the origin is unchanged, the stored route is non-empty and no     *)
(* route override is supplied replaces the route with generate(origin, new *)
(* destination); an update that changes neither leaves the route           *)
(* unchanged.                                                              *)
(***************************************************************************)
C20_DestinationChangeRegenerates == PanelRegenerates /\ UpdateRegenerates

(***************************************************************************)
(* The regeneration test.                                                  *)
(***************************************************************************)
\* Endpoint texts: blank, padded, and plain.
EndpointTexts == {"", "  ", "London", " London ", "Paris"}

\* The shipment with other endpoints and, possibly, no route.
WithEndpoints(shipment, o, d, keep_route) ==
    [shipment EXCEPT !.origin = o, !.destination = d,
                     !.route = IF keep_route THEN @ ELSE <<>>]

\* The two texts are the same once trimmed.
SameTrimmed(a, b) == Strip(a) = Strip(b)

(***************************************************************************)
(* C21.  should_regenerate_route(previous, updated) is true if and only if *)
(* the updated origin and destination are both non-empty after trimming    *)
(* and either the updated route is empty or the trimmed origin or          *)
(* destination differs from the previous one; it is never true while an    *)
(* endpoint of the update is blank.                                        *)
(***************************************************************************)
C21_ShouldRegenerate ==
    \A t \in DOMAIN shipments :
        \A o1 \in {shipments[t].origin, "  "}, d1 \in {shipments[t].destination, "Rome"},
           o2 \in EndpointTexts, d2 \in EndpointTexts, keep_route \in BOOLEAN :
            LET previous == WithEndpoints(shipments[t], o1, d1, TRUE)
                updated == WithEndpoints(shipments[t], o2, d2, keep_route)
                regenerate == should_regenerate_route(previous, updated)
            IN  /\ regenerate <=>
                    /\ ~IsBlank(o2) /\ ~IsBlank(d2)
                    /\ \/ Len(updated.route) = 0
                       \/ ~SameTrimmed(o1, o2)
                       \/ ~SameTrimmed(d1, d2)
                /\ IsBlank(o2) \/ IsBlank(d2) => ~regenerate

\* A shipment stored with a route, origin London and destination Paris:
\* the test is true for the destination Berlin, false for the same
\* endpoints padded, and false for a blank destination.
C21_Witness ==
    \E t \in DOMAIN shipments :
        LET s == shipments[t] IN
        /\ Len(s.route) > 0 /\ s.origin = "London" /\ s.destination = "Paris"
        /\ should_regenerate_route(s, [s EXCEPT !.destination = "Berlin"])
        /\ ~should_regenerate_route(s, [s EXCEPT !.origin = " London "])
        /\ ~should_regenerate_route(s, [s EXCEPT !.destination = "  "])
        /\ should_regenerate_route(s, [s EXCEPT !.route = <<>>])

(***************************************************************************)
(* Rejected overrides.                                                     *)
(***************************************************************************)
\* Route overrides that are not a JSON array, and current-location
\* overrides that are not a JSON object: unparseable text, or JSON of
\* another kind.
BadRoutes == {"not json", "[1, 2", JSON_DOCS[3].raw}

BadLocations == {"not json", "{lat: 1}", JSON_DOCS[1].raw, JSON_DOCS[2].raw}

\* A panel form that changes every field of the shipment t.
FullPanelForm(t) ==
    [BlankPanelForm EXCEPT !.tracking_id = t, !.status = "On Hold",
                           !.owner_email = "bob@example.com", !.origin = "Rome",
                           !.destination = "Oslo", !.package_details = "Books",
                           !.estimated_delivery = "2027-01-01",
                           !.fees_amount = "75", !.fees_paid = "on"]

\* The forms with a bad override: one bad override and the other absent,
\* valid or bad as well.
RejectedForms(t) ==
    {[FullPanelForm(t) EXCEPT !.route = route, !.current_location = location] :
        route \in BadRoutes, location \in BadLocations \cup {"", JSON_DOCS[3].raw}}
    \cup
    {[FullPanelForm(t) EXCEPT !.route = route, !.current_location = location] :
        route \in {"", JSON_DOCS[1].raw}, location \in BadLocations}

(***************************************************************************)
(* C22.  An administrator update whose route override is not a parseable   *)
(* JSON array, or whose current-location override is not a parseable JSON  *)
(* object, is rejected as a whole: the persisted shipment (status, owner,   *)
(* origin, destination, estimate, fees, events, milestone keys, route,     *)
(* current location) is exactly what it was before the request, and a      *)
(* shipment that was not stored is not created.                            *)
(***************************************************************************)
C22_BadOverrideRejected ==
    \A t \in TrackingIds \cup {"GLX9"} : \A form \in RejectedForms(t) :
        LET r == admin_panel(shipments, chats, AdminUser, "POST", form) IN
        /\ r.resp.to = "400"
        /\ r.shipments = shipments
        /\ r.chats = chats

\* A stored shipment with a route: the full form is saved and changes it
\* with a valid location override, and is rejected with a bad one.
C22_Witness ==
    \E t \in DOMAIN shipments :
        LET good == [FullPanelForm(t) EXCEPT !.current_location = JSON_DOCS[3].raw]
            bad == [FullPanelForm(t) EXCEPT !.current_location = JSON_DOCS[1].raw]
        IN  /\ Len(shipments[t].route) > 0
            /\ admin_panel(shipments, chats, AdminUser, "POST", good).shipments # shipments
            /\ admin_panel(shipments, chats, AdminUser, "POST", bad).shipments = shipments
            /\ admin_panel(shipments, chats, AdminUser, "POST", bad).resp.to = "400"

(***************************************************************************)
(* Unknown tracking ids.                                                   *)
(***************************************************************************)
\* Tracking ids with no stored shipment.
UnknownIds == {t \in TrackingIds \cup {"GLX9"} : ~Has(shipments, t)}

\* Requests by an administrator or a user to an unknown id, without the
\* admin chat.
UnknownIdOtherOps ==
    \A t \in UnknownIds : \A u \in Callers :
        /\ \A form \in InitiationForms, code \in Codes :
                Unchanged(initiate_payment(shipments, chats, u, t, form, code))
        /\ \A text \in ChatTexts :
                Unchanged(payment_chat(shipments, chats, u, t, "POST", text))
        /\ \A form \in FeeUpdateForms :
                Unchanged(admin_update_shipment(shipments, chats, u, t, form))
        /\ Unchanged(verify_payment(shipments, chats, u, t))
        /\ Unchanged(delete_shipment(shipments, chats, u, t))

\* The admin-chat post to an unknown id.
UnknownIdAdminChat ==
    \A t \in UnknownIds : \A u \in Callers, text \in ChatTexts :
        Unchanged(admin_chat(shipments, chats, u, t, "POST", text))

(***************************************************************************)
(* C23.  As specified: every mutating operation addressed to an unknown    *)
(* tracking id (payment initiation, payment-chat post, admin-chat post,    *)
(* inline admin update, payment verification, delete) is a no-op: it       *)
(* changes neither the shipments collection nor the chats collection.      *)
(***************************************************************************)
C23_UnknownIdNoOp == UnknownIdOtherOps /\ UnknownIdAdminChat

(***************************************************************************)
(* The estimate and its TBD flag.                                          *)
(***************************************************************************)
TbdPlaceholder == "Date will be made available when hold clears"

(***************************************************************************)
(* C24.  In every reachable state in which the estimated-delivery TBD flag *)
(* is set, the stored estimated_delivery is null, and the tracking view    *)
(* shows the fixed placeholder as the estimate, to every viewer and        *)
(* whatever value estimated_delivery holds.                                *)
(***************************************************************************)
C24_TbdEstimate ==
    \A t \in DOMAIN shipments :
        LET s == shipments[t] IN
        s.estimated_delivery_tbd_on_hold =>
            /\ s.estimated_delivery = NoneVal
            /\ \A u \in AllCallers, est \in Dates \cup {NoneVal, ""} :
                    track_view([s EXCEPT !.estimated_delivery = est], u)
                        .estimated_delivery = TbdPlaceholder

\* The TBD flag set on a shipment that had a date: the journal holds the
\* entry of that date, the stored estimate is null, the view shows the
\* placeholder.
C24_Witness ==
    \E t \in DOMAIN shipments :
        LET s == shipments[t] IN
        /\ s.estimated_delivery_tbd_on_hold
        /\ \E d \in Dates : CountEvents(s.events, "Estimated delivery set: " \o d) > 0
        /\ s.estimated_delivery = NoneVal
        /\ track_view(s, Anonymous).estimated_delivery = TbdPlaceholder

(***************************************************************************)
(* Route generation.                                                       *)
(***************************************************************************)
\* Endpoint texts: absent, blank, a city of CITY_DB as written, in another
\* letter case inside a longer text, and a place CITY_DB does not know.
RouteTexts == {"", "  ", "New York", "Tokyo", " TOKYO port ", "Atlantis"}

\* Hundredths of the way at which the five waypoints sit.
Fractions == <<0, 22, 55, 82, 100>>

\* The point f hundredths of the way from a to b, in 1e-6 degree: the
\* weighted mean of the two, each a multiple of 100.
Between(a, b, f) == (a \div 100) * (100 - f) + (b \div 100) * f

\* The coordinates and label an origin text resolves to.
ResolvedOrigin(text) ==
    IF find_city_coords(text) # NoCity
    THEN [lat |-> find_city_coords(text).lat, lng |-> find_city_coords(text).lng,
          label |-> find_city_coords(text).label]
    ELSE [lat |-> 40712800, lng |-> -74006000,
          label |-> IF text = "" THEN "New York, USA" ELSE text]

\* The coordinates and label a destination text resolves to, given the
\* resolved origin.
ResolvedDestination(text, o) ==
    IF find_city_coords(text) # NoCity
    THEN [lat |-> find_city_coords(text).lat, lng |-> find_city_coords(text).lng,
          label |-> find_city_coords(text).label]
    ELSE [lat |-> o.lat + 10000000, lng |-> o.lng + 10000000,
          label |-> IF text = "" THEN "Destination" ELSE text]

\* The route is the five waypoints between o and d.
FiveWaypoints(route, o, d) ==
    /\ Len(route) = 5
    /\ \A i \in 1..5 :
            /\ route[i].lat = Between(o.lat, d.lat, Fractions[i])
            /\ route[i].lng = Between(o.lng, d.lng, Fractions[i])
    /\ route[1].lat = o.lat /\ route[1].lng = o.lng
    /\ route[5].lat = d.lat /\ route[5].lng = d.lng
    /\ route[1].label = "Origin Scan - " \o o.label
    /\ route[5].label = "Destination Facility - " \o d.label

(***************************************************************************)
(* C25.  generate_route(origin, destination) is a function of its two      *)
(* texts that always returns exactly 5 waypoints at fractions 0.0, 0.22,   *)
(* 0.55, 0.82, 1.0 of the linear interpolation between the resolved        *)
(* coordinates; waypoint 0 sits at the origin with label "Origin Scan -    *)
(* {origin label}", waypoint 4 at the destination with label "Destination  *)
(* Facility - {destination label}"; an unresolvable origin falls back to   *)
(* the fallback city's coordinates and an unresolvable destination to the  *)
(* origin +10.0 latitude and +10.0 longitude.  For ("New York", "Tokyo")   *)
(* the first label is "Origin Scan - New York, USA" and the last latitude  *)
(* 35.6762.                                                                *)
(***************************************************************************)
C25_GenerateRoute ==
    /\ \A t \in DOMAIN shipments :
         \A origin \in RouteTexts \cup {shipments[t].origin},
            destination \in RouteTexts \cup {shipments[t].destination} :
              FiveWaypoints(generate_route(origin, destination),
                            ResolvedOrigin(origin),
                            ResolvedDestination(destination, ResolvedOrigin(origin)))
    /\ generate_route("New York", "Tokyo")[1].label = "Origin Scan - New York, USA"
    /\ generate_route("New York", "Tokyo")[5].lat = 35676200
    /\ generate_route("Atlantis", "Atlantis")[1].lat = 40712800
    /\ generate_route("Atlantis", "Atlantis")[5].lat = 50712800
    /\ generate_route("Atlantis", "Atlantis")[5].lng = -64006000

\* A shipment filed from London to Paris without a route override: its
\* stored route is the generated one, five waypoints from London's
\* coordinates to those of Paris.
C25_Witness ==
    \E t \in DOMAIN shipments :
        LET s == shipments[t] IN
        /\ s.origin = "London" /\ s.destination = "Paris"
        /\ s.route = generate_route("London", "Paris")
        /\ Len(s.route) = 5
        /\ s.route[1].lat = 51507400 /\ s.route[5].lat = 48856600
        /\ s.route[2].lng = Between(-127800, 2352200, 22)

(***************************************************************************)
(* Paid fees.                                                              *)
(***************************************************************************)
\* A paid Fee is not payment_submitted.
PaidNotSubmitted ==
    \A t \in DOMAIN shipments :
        IsFees(shipments[t].fees) /\ shipments[t].fees.paid =>
            ~shipments[t].fees.payment_submitted

\* On a paid Fee no payment-chat post sets payment_submitted or changes the
\* status.
PaidIgnoresChat ==
    \A t \in DOMAIN shipments : \A u \in Callers, text \in ChatTexts :
        LET r == payment_chat(shipments, chats, u, t, "POST", text) IN
        IsFees(shipments[t].fees) /\ shipments[t].fees.paid
            /\ ~shipments[t].fees.payment_submitted =>
                /\ ~r.shipments[t].fees.payment_submitted
                /\ r.shipments[t].status = shipments[t].status

(***************************************************************************)
(* C26.  As specified: in every reachable state a Fee with paid=true has   *)
(* payment_submitted=false; once a Fee is paid no chat message sets        *)
(* payment_submitted or forces the shipment's status back to "On Hold".    *)
(***************************************************************************)
C26_PaidIsFinal == PaidNotSubmitted /\ PaidIgnoresChat

(***************************************************************************)
(* The journal over time.                                                  *)
(***************************************************************************)
\* A step keeps every event of every shipment it does not delete, in place.
JournalExtended ==
    \A t \in DOMAIN shipments :
        Has(shipments', t) => IsPrefix(shipments[t].events, shipments'[t].events)

(***************************************************************************)
(* C27.  The journal is append-only: for every operation other than        *)
(* deleting the shipment (admin create/update, inline update, tracking     *)
(* read, payment initiation, chat post, payment verification), the         *)
(* shipment's event sequence before the operation is a prefix of its event *)
(* sequence after the operation; no event is edited, removed or reordered  *)
(* in stored state.                                                        *)
(***************************************************************************)
C27_JournalAppendOnly == [][JournalExtended]_vars

\* A journal written by the panel, the inline update, the payment chat and
\* the verification, its first entry still the one the shipment was filed
\* with.
C27_Witness ==
    \E t \in DOMAIN shipments :
        LET events == shipments[t].events IN
        /\ Len(events) >= 6
        /\ StartsWith(events[1].description, "Status updated: N/A -> On Hold")
        /\ CountEvents(events, CodeReceivedText) >= 1
        /\ CountEvents(events, PaymentVerifiedText) >= 1
        /\ CountEvents(events, "Status updated: On Hold -> In Transit") >= 1

(***************************************************************************)
(* Status entries.                                                         *)
(***************************************************************************)
\* Statuses an administrator sends: the stored ones, padded, and others.
SentStatuses == {"On Hold", " On Hold ", "In Transit", "Delivered"}

StatusPanelForms(t) ==
    {[BlankPanelForm EXCEPT !.tracking_id = t, !.status = st] : st \in SentStatuses}

StatusUpdateForms ==
    {[BlankUpdateForm EXCEPT !.status = st] : st \in SentStatuses \cup {""}}
        \cup {[BlankUpdateForm EXCEPT !.status = "Custom Status", !.custom_status = st] :
                st \in {"", "Customs Review"}}

\* The stored status and journal of t ("" and no journal while not stored).
StatusOf(ss, t) == IF Has(ss, t) THEN ss[t].status ELSE ""

JournalOf(ss, t) == IF Has(ss, t) THEN ss[t].events ELSE <<>>

\* The entries the request appended to the journal of t.
Appended(r, t) ==
    SubSeq(JournalOf(r.shipments, t), Len(JournalOf(shipments, t)) + 1,
           Len(JournalOf(r.shipments, t)))

\* The status entry for a change from old to new.
StatusEntry(old, new) ==
    "Status updated: " \o (IF old = "" THEN "N/A" ELSE old) \o " -> " \o new

\* The request appended one status entry, from the former status to the
\* new one, if it changed the stored status, and none if it did not.
OneStatusEntry(r, t) ==
    LET old == StatusOf(shipments, t)
        new == StatusOf(r.shipments, t)
    IN  /\ CountEvents(Appended(r, t), "Status updated")
                = (IF old # new THEN 1 ELSE 0)
        /\ old # new =>
                \E i \in 1..Len(Appended(r, t)) :
                    Appended(r, t)[i].description = StatusEntry(old, new)

(***************************************************************************)
(* C28.  Every administrator update (panel or inline) or payment           *)
(* verification that changes a shipment's stored status from old to new    *)
(* appends exactly one journal entry "Status updated: {old or N/A} ->      *)
(* {new}", and one that leaves the status unchanged appends no such entry: *)
(* saving the same status again, any number of times, adds no status       *)
(* entry.                                                                  *)
(***************************************************************************)
C28_OneStatusEntryPerChange ==
    \A t \in TrackingIds :
        /\ \A form \in StatusPanelForms(t) :
                OneStatusEntry(admin_panel(shipments, chats, AdminUser, "POST", form), t)
        /\ \A form \in StatusUpdateForms :
                OneStatusEntry(admin_update_shipment(shipments, chats, AdminUser, t, form), t)
        /\ OneStatusEntry(verify_payment(shipments, chats, AdminUser, t), t)
        /\ Has(shipments, t) =>
                OneStatusEntry(
                    admin_update_shipment(
                        admin_update_shipment(shipments, chats, AdminUser, t,
                            [BlankUpdateForm EXCEPT !.status = shipments[t].status]).shipments,
                        chats, AdminUser, t,
                        [BlankUpdateForm EXCEPT !.status = shipments[t].status]), t)

\* A submitted Fee on a held shipment: verification changes the status and
\* appends the entry "On Hold -> In Transit", the update to "Delivered"
\* appends its own, and saving "On Hold" again appends none.
C28_Witness ==
    \E t \in DOMAIN shipments :
        LET verified == verify_payment(shipments, chats, AdminUser, t)
            same == admin_update_shipment(shipments, chats, AdminUser, t,
                        [BlankUpdateForm EXCEPT !.status = "On Hold"])
            other == admin_panel(shipments, chats, AdminUser, "POST",
                        [BlankPanelForm EXCEPT !.tracking_id = t, !.status = "Delivered"])
        IN  /\ shipments[t].status = "On Hold"
            /\ verified.shipments[t].status = "In Transit"
            /\ CountEvents(Appended(verified, t), StatusEntry("On Hold", "In Transit")) = 1
            /\ CountEvents(Appended(other, t), StatusEntry("On Hold", "Delivered")) = 1
            /\ CountEvents(Appended(same, t), "Status updated") = 0
            /\ CountEvents(shipments[t].events, "Status updated") >= 2

(***************************************************************************)
(* Routes and endpoints.                                                   *)
(***************************************************************************)
\* A stored route that the generator produced comes with both endpoints.
GeneratedRouteHasEndpoints ==
    \A t \in DOMAIN shipments :
        Len(shipments[t].route) > 0 /\ shipments[t].route # RouteOverride =>
            shipments[t].origin # "" /\ shipments[t].destination # ""

(***************************************************************************)
(* C29.  As specified: in every reachable state, a shipment's route is     *)
(* non-empty only if both its origin and its destination are non-empty.    *)
(***************************************************************************)
C29_RouteNeedsEndpoints ==
    \A t \in DOMAIN shipments :
        Len(shipments[t].route) > 0 =>
            shipments[t].origin # "" /\ shipments[t].destination # ""

(***************************************************************************)
(* Threads over time.                                                      *)
(***************************************************************************)
\* A step keeps every thread, the owner_email of a thread that has one,
\* and every message in place; an owner_email it fills in is the stored
\* shipment's owner.
ThreadKept ==
    \A t \in DOMAIN chats :
        /\ Has(chats', t)
        /\ chats[t].owner_email # "" => chats'[t].owner_email = chats[t].owner_email
        /\ chats[t].owner_email = "" /\ chats'[t].owner_email # "" =>
                Has(shipments, t) /\ chats'[t].owner_email = shipments[t].owner_email
        /\ IsPrefix(chats[t].messages, chats'[t].messages)

(***************************************************************************)
(* C30.  A chat thread's owner_email is backfilled once and never          *)
(* overwritten: once it is non-empty, no operation (thread access by owner *)
(* or administrator, message posts, payment initiation, an administrator   *)
(* changing the shipment's owner_email) changes it; and thread messages    *)
(* are only ever appended, never removed or altered.                       *)
(***************************************************************************)
C30_ThreadOwnerAndMessagesKept == [][ThreadKept]_vars

\* A thread the administrator opened with a message, later attributed to
\* Alice; the shipment has since been filed under Bob, who initiated
\* payment: the thread is still Alice's.
C30_Witness ==
    \E t \in DOMAIN chats :
        /\ Has(shipments, t)
        /\ chats[t].owner_email = "alice@example.com"
        /\ shipments[t].owner_email = "bob@example.com"
        /\ Len(chats[t].messages) >= 3
        /\ chats[t].messages[1].sender = "admin"
        /\ IsFees(shipments[t].fees) /\ shipments[t].fees.initiated_at
        /\ CountMessages(chats[t].messages, "user", "") >= 1

(***************************************************************************)
(* Chat notifications.                                                     *)
(***************************************************************************)
\* The identities that get a count, and the spellings an email may come in.
Readers == {Alice, Bob}

EmailForms(u) == {u.email, " " \o Upper(u.email) \o " "}

\* The identity's watermark for the thread, 0 if it never read it.
Watermark(last_read, t) == IF Has(last_read, t) THEN last_read[t] ELSE 0

\* The messages, as thread and position, that are unread for the identity.
UnreadSet(cs, last_read, email) ==
    {p \in UNION {{<<t, i>> : i \in 1..Len(cs[t].messages)} : t \in DOMAIN cs} :
        /\ Lower(Strip(cs[p[1]].owner_email)) = email
        /\ cs[p[1]].messages[p[2]].sender \in {"admin", "system"}
        /\ cs[p[1]].messages[p[2]].ts > Watermark(last_read, p[1])}

UnreadCountMatches ==
    \A u \in Readers : \A raw \in EmailForms(u) :
        chat_unread_count_for_user(chats, session[u.email], raw)
            = Cardinality(UnreadSet(chats, session[u.email], u.email))

\* Marking a thread read writes that thread's watermark and no other, and
\* opening the payment chat, which does it, leaves every message in place.
MarkReadFrame ==
    \A u \in Readers : \A t \in UnreadIds :
        /\ \A raw \in {t, " " \o t \o " "} :
              /\ DOMAIN chat_mark_read(session[u.email], raw)
                    = DOMAIN session[u.email] \cup {t}
              /\ chat_mark_read(session[u.email], raw)[t] = clock
              /\ \A t2 \in DOMAIN session[u.email] \ {t} :
                    chat_mark_read(session[u.email], raw)[t2] = session[u.email][t2]
        /\ payment_chat(shipments, chats, u, t, "GET", "").shipments = shipments
        /\ \A t2 \in DOMAIN payment_chat(shipments, chats, u, t, "GET", "").chats :
              payment_chat(shipments, chats, u, t, "GET", "").chats[t2].messages
                = (IF Has(chats, t2) THEN chats[t2].messages ELSE <<>>)

\* C31: the unread count of an identity is the number of admin and system
\* messages, over the threads it owns, whose timestamp is strictly greater
\* than its watermark for the thread (0 if it never read the thread);
\* marking a thread read sets that thread's watermark to the current time
\* and leaves the other watermarks and every thread's messages unchanged.
C31_UnreadCount == UnreadCountMatches /\ MarkReadFrame

\* Alice read GLX1 in the second the administrator's message arrived and has
\* not seen the later system message: one unread.
C31_Witness ==
    /\ Has(chats, "GLX1") /\ Len(chats["GLX1"].messages) = 2
    /\ chats["GLX1"].messages[1].sender = "admin"
    /\ chats["GLX1"].messages[1].ts = 1
    /\ chats["GLX1"].messages[2].sender = "system"
    /\ chats["GLX1"].messages[2].ts = 2
    /\ Watermark(session[Alice.email], "GLX1") = 1
    /\ chat_unread_count_for_user(chats, session[Alice.email], Alice.email) = 1

(***************************************************************************)
(* The tracking read.                                                      *)
(***************************************************************************)
\* The records a tracking read may find: the stored one, and the same under
\* a status whose milestone is owed, without its milestone keys, without
\* its current location, or with fees due.
TrackedRecords(t) ==
    {[shipments[t] EXCEPT !.status = st, !.auto_event_keys = keys,
                          !.current_location = loc, !.fees = fees] :
        st \in {shipments[t].status, "Delivered"},
        keys \in {shipments[t].auto_event_keys, <<>>},
        loc \in {shipments[t].current_location, NoLocation},
        fees \in {shipments[t].fees, [NewFees EXCEPT !.amount = 50]}}

\* The events and keys of after beyond those of before.
AddedEvents(before, after) ==
    SubSeq(after.events, Len(before.events) + 1, Len(after.events))

AddedKeys(before, after) ==
    SubSeq(after.auto_event_keys, Len(before.auto_event_keys) + 1,
           Len(after.auto_event_keys))

\* after is before, but for milestones owed and a defaulted location.
TrackFrame(before, after) ==
    /\ after.status = before.status /\ after.fees = before.fees
    /\ after.origin = before.origin /\ after.destination = before.destination
    /\ after.route = before.route
    /\ after.estimated_delivery = before.estimated_delivery
    /\ after.estimated_delivery_tbd_on_hold = before.estimated_delivery_tbd_on_hold
    /\ after.owner_email = before.owner_email
    /\ after.package_details = before.package_details
    /\ IsPrefix(before.events, after.events)
    /\ IsPrefix(before.auto_event_keys, after.auto_event_keys)
    /\ Len(AddedEvents(before, after)) = Len(AddedKeys(before, after))
    /\ \A i \in 1..Len(AddedKeys(before, after)) :
          /\ AddedKeys(before, after)[i] \notin KeySet(before)
          /\ AddedKeys(before, after)[i]
                \in {"milestone_created",
                     "milestone_" \o normalize_status_bucket(before.status)}
          /\ \E m \in Milestones :
                /\ m[1] = AddedKeys(before, after)[i]
                /\ m[2] = AddedEvents(before, after)[i].description
    /\ after.current_location =
          (IF before.current_location # NoLocation \/ before.route = <<>>
           THEN before.current_location
           ELSE [lat |-> before.route[Len(before.route)].lat,
                 lng |-> before.route[Len(before.route)].lng])

\* C32: a tracking read, for any viewer, leaves the shipment's status, fees,
\* origin, destination, route, estimated delivery and owner as stored; all
\* it may store is the milestone events owed, with their keys, and the last
\* route waypoint as the current location where there was none; what it
\* stores does not depend on the viewer, and the chats are left alone.
C32_TrackReadFrame ==
    \A t \in DOMAIN shipments : \A s \in TrackedRecords(t) : \A u \in AllCallers :
        \A raw \in {t, " " \o t \o " "} :
            /\ track(Put(shipments, t, s), chats, u, raw).chats = chats
            /\ DOMAIN track(Put(shipments, t, s), chats, u, raw).shipments
                  = DOMAIN shipments
            /\ TrackFrame(s, track(Put(shipments, t, s), chats, u, raw).shipments[t])
            /\ track(Put(shipments, t, s), chats, u, raw).shipments
                  = track(Put(shipments, t, s), chats, Anonymous, t).shipments

\* A stranger tracks a shipment that has a route and no current location:
\* the location is stored, and the status, though shown redacted had fees
\* been due, stays.
C32_Witness ==
    \E t \in DOMAIN shipments :
        /\ shipments[t].current_location = NoLocation
        /\ shipments[t].route # <<>>
        /\ track(shipments, chats, Anonymous, t).shipments # shipments
        /\ track(shipments, chats, Anonymous, t).shipments[t].current_location
              = [lat |-> shipments[t].route[Len(shipments[t].route)].lat,
                 lng |-> shipments[t].route[Len(shipments[t].route)].lng]
        /\ track(shipments, chats, Anonymous, t).shipments[t].status = "In Transit"

====
